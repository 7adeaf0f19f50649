-------------------------------- MODULE Parked --------------------------------
(***************************************************************************)
(* The two policies against a steady source: frames on a grid of period S, *)
(* each stamped a little late, and a present clock in step with it, so     *)
(* that the target parks at a few phases of the grid.  The policies' bands *)
(* and the tooth guard are there for this regime; it goes on for as long   *)
(* as one likes, and every property here is about all of it.               *)
(*                                                                         *)
(* All times are relative to the present's target, so a run has finitely   *)
(* many states.  The lag is taken to be long enough for the frames around  *)
(* the target to have arrived.                                             *)
(***************************************************************************)
EXTENDS Composite, FiniteSets

CONSTANTS
    S,          \* the source period
    Band,       \* stickinessQpc
    Regimes     \* the regimes considered

\* A present in present, a sink showing a frame in sink, the first target's phases, how late a
\* frame may be stamped, whether frames may be missing, and how many teeth of the grid are
\* followed around the target.
Regime == [present : Nat \ {0}, sink : Nat \ {0}, phases : SUBSET (0 .. (S - 1)),
           offsets : SUBSET Nat, holes : BOOLEAN, reach : {1, 2}]

\* The band is a millisecond in the code (TemporalCaptureMode.cpp:194), a quarter of the source
\* period at most; a period is many ticks of the clock, and Never is before every stamp.  Frames
\* come late by less than the threshold a real frame passes within; frames are missing where the
\* lock holds the target on the grid.
ASSUME ParkedAssumption ==
    /\ S \in Nat /\ S >= 32 /\ 4 * S < -Never
    /\ Band \in Nat /\ Band >= 2 /\ 4 * Band <= S
    /\ \A r \in Regimes :
          /\ r \in Regime /\ r.present <= 2 * S
          /\ \A d \in r.offsets : 16 * d <= 3 * S
          /\ r.holes => r.present = S /\ r.phases = {0} /\ r.reach = 2

VARIABLES
    regime,
    phase,      \* how far the target is past its tooth of the grid
    tooth,      \* how late each tooth around is stamped, or Missing; 0 is the target's
    sel, comp,  \* m_selState and m_compState, stamps relative to the target
    op,         \* what the blend mode did
    settled     \* history, for both modes: by phase what was shown there last, and how often
                \* that has changed

vars == <<regime, phase, tooth, sel, comp, op, settled>>

Teeth == -regime.reach .. regime.reach

Missing == 2 * S

\* What stands for a tooth where a blend was shown, and where nothing was yet.
Blended == 100
None == -100

\* Bound on flips, for TLC.
MaxFlips == 4

Settings ==
    [stickiness |-> Band,
     passthrough |-> PassthroughThreshold(S, regime.present),
     srcPeriod |-> ToothGuardPeriod(S, regime.sink, TRUE)]

\* What may stand at a tooth after prev: no two teeth in a row are missing.
MayFollow(prev) ==
    regime.offsets \cup (IF regime.holes /\ prev # Missing THEN {Missing} ELSE {})

\* The stamp of tooth k, relative to a target at phase p.
Stamp(k, t, p) == k * S + t[k] - p

There(t) == {k \in Teeth : t[k] # Missing}

IsBefore(k, t, p) ==
    /\ k \in There(t) /\ Stamp(k, t, p) <= 0
    /\ \A j \in There(t) : Stamp(j, t, p) <= 0 => j <= k

IsAfter(k, t, p) ==
    /\ k \in There(t) /\ Stamp(k, t, p) > 0
    /\ \A j \in There(t) : Stamp(j, t, p) > 0 => j >= k

Bracket(before, after, t, p) ==
    [hasBefore |-> TRUE, hasAfter |-> TRUE, exempt |-> FALSE,
     beforeTs |-> Stamp(before, t, p), beforeDiff |-> -Stamp(before, t, p),
     afterTs |-> Stamp(after, t, p), afterDiff |-> Stamp(after, t, p)]

Back(ts) == IF ts = Never THEN Never ELSE ts - regime.present

\* The policies' memory as the next present sees it, its target further on.
SelNow == [sel EXCEPT !.shown = Back(sel.shown)]
CompNow == [comp EXCEPT !.out = Back(comp.out), !.target = Back(comp.target)]

Init ==
    /\ regime \in Regimes
    /\ phase \in regime.phases
    /\ tooth \in [Teeth -> regime.offsets \cup {Missing}]
    /\ \A k \in Teeth : tooth[k] \in MayFollow(IF k = -regime.reach THEN 0 ELSE tooth[k - 1])
    /\ sel = [FirstSelection EXCEPT !.shown = Never]
    /\ comp = FirstComposite
    /\ op = "none"
    /\ settled = [mode \in {"nearest", "blend"} |-> [at |-> [p \in {} |-> None], flips |-> 0]]

\* The teeth move back by n as the target passes n of them, and n new ones come in.
Moved(n, t) ==
    \A k \in Teeth : IF k + n \in Teeth THEN t[k] = tooth[k + n] ELSE t[k] \in MayFollow(t[k - 1])

\* The tooth of the grid a stamp is of.
ToothOf(ts) == (ts + phase') \div S

Shows(h, what) ==
    [at |-> [p \in DOMAIN h.at \cup {phase'} |-> IF p = phase' THEN what ELSE h.at[p]],
     flips |-> IF phase' \in DOMAIN h.at /\ h.at[phase'] # what /\ h.flips < MaxFlips
               THEN h.flips + 1 ELSE h.flips]

Present ==
    LET on == phase + regime.present
        b(before, after) == Bracket(before, after, tooth', phase')
    IN
    /\ phase' = on % S
    /\ tooth' \in [Teeth -> regime.offsets \cup {Missing}]
    /\ Moved(on \div S, tooth')
    /\ \E before, after \in Teeth :
          /\ IsBefore(before, tooth', phase') /\ IsAfter(after, tooth', phase')
          /\ sel' = SelectFrame(b(before, after), SelNow, Settings).st
          /\ LET blend == DecideComposite(b(before, after), CompNow, Settings)
             IN comp' = blend.st /\ op' = blend.op
    /\ settled' = [nearest |-> Shows(settled.nearest, ToothOf(sel'.shown)),
                   blend |-> Shows(settled.blend,
                                   IF comp'.synth THEN Blended ELSE ToothOf(comp'.out))]
    /\ UNCHANGED regime

Spec == Init /\ [][Present]_vars

-----------------------------------------------------------------------------
\* Types, and that both policies keep up with the target for ever: two source
\* periods off in the nearest mode, and one in the blend modes.
ParkedInv ==
    /\ regime \in Regimes /\ phase \in 0 .. (S - 1)
    /\ tooth \in [Teeth -> regime.offsets \cup {Missing}]
    /\ op \in {"none", "before", "after", "synth", "comb", "hold"}
    /\ op # "none" =>
          /\ sel.shown \in -2 * S .. 2 * S
          /\ comp.target \in -S .. 0 /\ comp.out \in comp.target - S .. comp.target + S
          /\ comp.synth => comp.out = comp.target

\* Jitter no wider than the bands, that of the sides and the one on top of the threshold.
Tight == ~regime.holes /\ \A d \in regime.offsets : d <= Band /\ 16 * d <= S

\* A present clock at the source's rate or half of it.
Slow == Tight /\ regime.present \in {S, 2 * S}

\* A present clock at twice or four times the source's rate, where the tooth guard is armed.
Fast ==
    /\ Tight /\ S \in {2 * regime.present, 4 * regime.present}
    /\ ToothGuardPeriod(S, regime.sink, TRUE) > 0

\* On a slow present clock, the nearest mode changes its mind at most once at each phase the
\* target parks at, however the stamps jitter: "the state bit widens the reopen threshold so
\* a crossing costs one clean flip" (SelectFrame).
NearestSettles == Slow => settled.nearest.flips <= Cardinality(DOMAIN settled.nearest.at)

\* On a slow present clock parked within jitter of the threshold or of the middle, the blend
\* modes do not go back and forth between passing and blending, nor between the two sides
\* of the bracket.
BlendSettles == Slow => settled.blend.flips <= 1

\* A present clock at twice or four times the source's rate: once a real frame was passed
\* and while none is missing, nothing is blended, so the output never alternates between
\* the source's frames and made-up ones.
NoParityBlend ==
    [][Fast /\ comp.target # Never /\ ~comp.synth => op' # "synth"]_vars

\* A missing frame is covered by a blend, also right after a frame stamped late was passed.
HoleCovered == regime.holes /\ op # "none" /\ tooth[0] = Missing => op = "synth"

\* A source at twice the present rate passes through free, and one at three halves of it,
\* locked, passes and blends in turn with even steps.
EvenOutput ==
    /\ Tight /\ regime.present = 2 * S => op # "synth"
    /\ 2 * regime.present = 3 * S /\ regime.phases \subseteq {0, S \div 2} /\ op # "none" =>
           (op = "synth" <=> phase = S \div 2)
===============================================================================
