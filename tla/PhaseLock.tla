------------------------------ MODULE PhaseLock ------------------------------
(***************************************************************************)
(* The comb lock of core/TemporalPolicy: the pull, an extra lag that holds *)
(* the present's target on the source's frames; the stall run and the      *)
(* resume that ends it; the easing of a wrap; and the lookahead that moves *)
(* the pull onto a step of the source's phase it sees coming in the ring.  *)
(* Every operator is one function of the policy: the old state in, the new *)
(* state out.                                                              *)
(***************************************************************************)
EXTENDS Integers, FiniteSets

CONSTANTS
    Comb,         \* cfg.combQpc: what the phase is periodic in
    SteadySlew,   \* cfg.phasePullSlewQpc
    Passthrough,  \* cfg.passthroughQpc: how near a real frame passes as it is
    StallSpan,    \* cfg.stallSpanQpc: a wider bracket is a stall
    SrcPeriod,    \* cfg.srcPeriodQpc: the tooth guard's period, 0 when it is off
    EasePresents, \* cfg.wrapEasePresents
    RingFrames    \* bound on the frames counted as not yet seen by the lookahead

ASSUME LockAssumption ==
    /\ Comb \in Nat /\ Comb >= 32
    /\ {SteadySlew, Passthrough, StallSpan, SrcPeriod, EasePresents, RingFrames} \subseteq Nat

StallRunPresents == 3        \* kStallRunPresents
RecoverPresents == 16        \* kRecoverPresents
RecoverAlpha == 2            \* kRecoverAlpha
SteadyAlpha == 16
RecoverSlew == Comb \div 32  \* kRecoverSlewDiv
EngageStable == Comb \div 16 \* kEngageStableDiv
EngageConfirmPresents == 120 \* kEngageConfirmPresents
ExemptPresents == 2          \* kResumeGuardExemptPresents
PullWrapBelow == Comb \div 16
PullWrapAbove == Comb \div 8

\* Division as C++ does it, toward zero.
Quot(a, b) == IF a >= 0 THEN a \div b ELSE -((-a) \div b)

Magnitude(d) == IF d < 0 THEN -d ELSE d

Smaller(a, b) == IF a < b THEN a ELSE b

Clamp(d, most) == IF d > most THEN most ELSE IF d < -most THEN -most ELSE d

\* The signed distance to the nearest point of the comb.
WrapHalf(d) == ((d + (Comb \div 2)) % Comb) - (Comb \div 2)

-----------------------------------------------------------------------------
FirstLock == [pull |-> 0, ease |-> 0, errEma |-> 0, devEma |-> 0, engaged |-> FALSE,
              seeded |-> FALSE, stallRun |-> 0, recoverRun |-> 0, reengageRun |-> -1,
              exemptLeft |-> 0]

\* A bracket is the distances from the target to the frames either side, -1 for none.
Stalled(b) == b.before < 0 \/ b.after < 0 \/ (StallSpan > 0 /\ b.before + b.after > StallSpan)

Resumes(s, b) == ~Stalled(b) /\ s.stallRun >= StallRunPresents

\* The run only has to reach the threshold, so it is counted no further.
CountStall(s, b) ==
    [s EXCEPT !.stallRun = IF Stalled(b) THEN Smaller(@ + 1, StallRunPresents) ELSE 0]

\* Mutant: the gate opens on a deviation above the threshold.
MeasureReversed(s, err, resumed) ==
    LET reseed == ~s.seeded \/ resumed
        ema == IF reseed THEN err
               ELSE WrapHalf(s.errEma + Quot(WrapHalf(err - s.errEma), SteadyAlpha))
        dev == (s.devEma * 15 + Magnitude(WrapHalf(err - ema))) \div 16
    IN [s EXCEPT !.errEma = ema, !.devEma = dev, !.seeded = TRUE,
                 !.recoverRun = IF resumed THEN RecoverPresents ELSE @,
                 !.engaged = dev > Comb \div 8]

\* The error estimate and the stability gate.
Measure(s, err, resumed) ==
    LET reseed == ~s.seeded \/ resumed
        alpha == IF s.recoverRun > 0 THEN RecoverAlpha ELSE SteadyAlpha
        ema == IF reseed THEN err
               ELSE WrapHalf(s.errEma + Quot(WrapHalf(err - s.errEma), alpha))
        dev == (s.devEma * 15 + Magnitude(WrapHalf(err - ema))) \div 16
    IN [s EXCEPT !.errEma = ema, !.devEma = dev, !.seeded = TRUE,
                 !.recoverRun = IF resumed THEN RecoverPresents ELSE @,
                 !.engaged = dev < Comb \div 8]

\* A re-engage waits to settle, and opens the convergence window if it is still off.
ConfirmReengage(s, wasSeeded, wasEngaged) ==
    LET run == IF wasSeeded /\ ~wasEngaged /\ s.recoverRun = 0 THEN 0 ELSE s.reengageRun
        settled == s.devEma < EngageStable
        opens == /\ settled /\ s.recoverRun = 0 /\ Passthrough > 0
                 /\ Magnitude(s.errEma) >= Passthrough
    IN IF ~s.engaged THEN [s EXCEPT !.reengageRun = -1]
       ELSE IF run < 0 THEN [s EXCEPT !.reengageRun = run]
       ELSE [s EXCEPT !.recoverRun = IF opens THEN RecoverPresents ELSE @,
                      !.reengageRun = IF settled \/ run >= EngageConfirmPresents
                                      THEN -1 ELSE run + 1]

\* Mutant: the resume's correction is slewed like any other.
SlewAlways(s, resumed) ==
    Clamp(IF s.engaged THEN s.errEma ELSE -s.pull,
          IF s.recoverRun > 0 THEN RecoverSlew ELSE SteadySlew)

\* The pull moves toward the phase, all the way on an engaged resume, else by the slew.
PullDelta(s, resumed) ==
    LET want == IF s.engaged THEN s.pull + s.errEma ELSE 0
        slew == IF s.recoverRun > 0 THEN RecoverSlew ELSE SteadySlew
    IN IF resumed /\ s.engaged THEN want - s.pull ELSE Clamp(want - s.pull, slew)

\* Mutant: only the band below the comb wraps.
WrapBelowOnly(pull) == IF pull < -PullWrapBelow THEN Comb ELSE 0

WrapOf(pull) == IF pull < -PullWrapBelow THEN Comb
                ELSE IF pull >= Comb + PullWrapAbove THEN -Comb ELSE 0

\* Mutant: the ease adds the wrap instead of taking it back.
EaseWithWrap(ease, wrap, resumed, shownOnComb) ==
    IF resumed \/ (wrap # 0 /\ ~shownOnComb) THEN 0 ELSE Clamp(ease + wrap, Comb)

\* Mutant: the easing takes a wrap back and never lets go of it.
EaseKept(ease, wrap, resumed, shownOnComb) ==
    IF \/ EasePresents <= 1 \/ resumed \/ Passthrough <= 0
       \/ wrap # 0 /\ ~shownOnComb
    THEN 0 ELSE Clamp(ease - wrap, Comb)

EaseAfter(ease, wrap, resumed, shownOnComb) ==
    LET step == Comb \div EasePresents
        decayed == IF ease > step THEN ease - step ELSE IF ease < -step THEN ease + step ELSE 0
    IN IF \/ EasePresents <= 1 \/ resumed \/ Passthrough <= 0
          \/ wrap # 0 /\ ~shownOnComb
       THEN 0
       ELSE Clamp(decayed - wrap, Comb)

\* The measurement and what it does to the pull's run counters, before the pull moves.
Measured(s, b, resumed) ==
    ConfirmReengage(Measure(s, WrapHalf(b.before + s.ease), resumed), s.seeded, s.engaged)

\* A complete bracket's step of the lock.
UpdatePhaseLock(s, b, resumed) ==
    LET m == Measured(s, b, resumed)
        onComb == Magnitude(WrapHalf(b.before)) < Passthrough \/ b.after < Passthrough
        moved == m.pull + PullDelta(m, resumed)
        wrap == WrapOf(moved)
    IN [m EXCEPT !.recoverRun = IF @ > 0 THEN @ - 1 ELSE 0,
                 !.pull = moved + wrap,
                 !.ease = EaseAfter(@, wrap, resumed, onComb)]

\* At a resume, unless the relay presents faster than the source.
ArmExemption(s, meanInterval) ==
    IF SrcPeriod > 0 /\ meanInterval * 8 >= SrcPeriod * 7
    THEN [s EXCEPT !.exemptLeft = ExemptPresents] ELSE s

ConsumeExemption(s) == [s EXCEPT !.exemptLeft = IF @ > 0 THEN @ - 1 ELSE 0]

-----------------------------------------------------------------------------
LookaheadFrames == 4        \* kLookaheadFrames
LookaheadConfirmFrames == 2 \* kLookaheadConfirmFrames
MaxAt == 3                  \* RecentFrames::kMaxAt
LookaheadStep == Comb \div 5
LookaheadSpread == Comb \div 8
LookaheadLead == Comb \div 8

\* unseen: the frames published since lastSeq; first: the age of the step's first frame.  Times
\* are ages, counted back from the present.
FirstLookahead == [pending |-> FALSE, late |-> FALSE, size |-> 0, first |-> 0,
                   confirm |-> 0, unseen |-> 0]

NoPlan(la) == [la EXCEPT !.pending = FALSE, !.size = 0, !.first = 0]

\* The planned move is made once the target is near the step's first frame.
Fires(la, target) ==
    la.pending /\ (la.late \/ target <= la.first - la.size + (Comb \div 4))

\* Mutant: every planned move shifts the error estimate.
ApplyAsLate(la, s, target) ==
    IF ~Fires(la, target) THEN s
    ELSE [s EXCEPT !.pull = @ + la.size, !.errEma = WrapHalf(@ - la.size)]

ApplyToLock(la, s, target) ==
    IF ~Fires(la, target) THEN s
    ELSE [s EXCEPT !.pull = @ + la.size,
                   !.errEma = IF la.late THEN WrapHalf(@ - la.size) ELSE @]

ApplyToLookahead(la, target) ==
    IF Fires(la, target) THEN [NoPlan(la) EXCEPT !.late = FALSE] ELSE la

\* The middle of a few values, the mean of the two middle ones when they are even in number.
Nth(v, k) == CHOOSE x \in {v[i] : i \in DOMAIN v} :
                 /\ Cardinality({i \in DOMAIN v : v[i] < x}) < k
                 /\ Cardinality({i \in DOMAIN v : v[i] <= x}) >= k

MedianOf(v) == LET n == Cardinality(DOMAIN v)
               IN Quot(Nth(v, (n + 1) \div 2) + Nth(v, n \div 2 + 1), 2)

\* The width of the band phases keep to around the phase at.
Spread(v, at) ==
    LET off == {WrapHalf(v[i] - at) : i \in DOMAIN v}
    IN (CHOOSE h \in off : \A d \in off : d <= h) - (CHOOSE l \in off : \A d \in off : l <= d)

Beyond(d, least) == d > least \/ -d > least

SameSide(d, e) == (d > 0) = (e > 0)

\* What ReadRecentFrames finds at a target: ahead the distances to the frames newer than it,
\* newest first and negative, behind those to the nearest three at or before it.
Phases(dist) == [i \in DOMAIN dist |-> WrapHalf(dist[i])]

Agreed(recent) == MedianOf([i \in 1 .. LookaheadFrames |-> WrapHalf(recent.ahead[i])])

Current(recent) == MedianOf(Phases(recent.behind))

\* The newest frames agree on a phase off the one the target is on, which is on the comb.
NewPhase(recent) ==
    LET up == Agreed(recent) cur == Current(recent)
    IN /\ Spread([i \in 1 .. LookaheadFrames |-> WrapHalf(recent.ahead[i])], up) < LookaheadSpread
       /\ Magnitude(cur) < Passthrough
       /\ Beyond(WrapHalf(up - cur), LookaheadStep)

\* The target has reached the step: it is off the comb and all frames near it agree.
LatePhase(la, s, recent) ==
    LET up == Agreed(recent) cur == Current(recent)
        all == [i \in 1 .. LookaheadFrames + MaxAt |->
                    IF i <= LookaheadFrames THEN WrapHalf(recent.ahead[i])
                    ELSE WrapHalf(recent.behind[i - LookaheadFrames])]
    IN /\ Magnitude(cur) >= Passthrough /\ ~la.pending /\ s.ease = 0
       /\ Spread(all, up) < LookaheadSpread
       /\ ~Beyond(WrapHalf(up - cur), Comb \div 16 - 1)
       /\ Beyond(up, LookaheadStep)

\* The frames of the step: every one from the newest down to the first still at the new phase.
StepFrames(recent) ==
    LET cur == Current(recent)
        dev == WrapHalf(Agreed(recent) - cur)
        at(j) == WrapHalf(WrapHalf(recent.ahead[j]) - cur)
    IN {j \in DOMAIN recent.ahead :
           \A i \in 1 .. j : SameSide(at(i), dev) /\ Beyond(at(i), LookaheadStep \div 2)}

PlanLate(la, recent) ==
    [la EXCEPT !.pending = TRUE, !.late = TRUE, !.size = Agreed(recent), !.confirm = 0]

\* A plan needs its first frame well ahead of the target (lookaheadNeedsLead).
PlanStep(la, recent) ==
    LET step == StepFrames(recent)
        first == recent.ahead[CHOOSE j \in step : \A i \in step : i <= j]
    IN IF step = {} \/ -first < LookaheadLead THEN [la EXCEPT !.confirm = 0]
       ELSE [la EXCEPT !.pending = TRUE, !.first = recent.target + first, !.confirm = 0,
                       !.size = WrapHalf(Agreed(recent) - Current(recent))]

\* Whether the newest frames are still off by what was planned.
StillOff(la, recent) ==
    LET dev == WrapHalf(Agreed(recent) - Current(recent))
    IN SameSide(dev, la.size) /\ Beyond(dev, LookaheadStep \div 2)

Compare(la, s, recent, newFrames) ==
    LET late == LatePhase(la, s, recent)
        confirm == la.confirm + newFrames
    IN IF la.pending THEN IF StillOff(la, recent) THEN la ELSE NoPlan(la)
       ELSE IF ~NewPhase(recent) /\ ~late THEN [la EXCEPT !.confirm = 0]
       ELSE IF confirm < LookaheadConfirmFrames THEN [la EXCEPT !.confirm = confirm]
       ELSE IF late THEN PlanLate(la, recent) ELSE PlanStep(la, recent)

UpdateLookahead(la, s, recent, resumed) ==
    LET ahead == Cardinality(DOMAIN recent.ahead)
        newFrames == Smaller(ahead, la.unseen)
        seen == [la EXCEPT !.unseen = IF ahead > 0 THEN 0 ELSE @]
    IN IF ~s.engaged \/ s.stallRun # 0 \/ s.recoverRun # 0 \/ resumed
       THEN [NoPlan(seen) EXCEPT !.confirm = 0]
       ELSE IF ahead < LookaheadFrames \/ Cardinality(DOMAIN recent.behind) < MaxAt THEN seen
       ELSE Compare(seen, s, recent, newFrames)
==============================================================================
