----------------------------- MODULE RotationVote -----------------------------
(***************************************************************************)
(* The rotation vote of core/TemporalPolicy.  Where a batch advances a     *)
(* number of flips that does not divide the source period, the place of    *)
(* the real frame in the batches rotates.  The vote keeps a position on    *)
(* the grid of flips, sums how far from its flip a batch of each position  *)
(* came, and names the position that comes early as the real frame's.      *)
(***************************************************************************)
EXTENDS Integers, FiniteSets, FiniteSetsExt, Functions

CONSTANTS
    SampleCap,     \* kSampleCap
    MinSamples     \* kMinSamplesPerResidue

ASSUME VoteAssumption == SampleCap \in Nat \ {0} /\ MinSamples \in Nat \ {0}

MaxPeriod == 8     \* RotationPhase::kMaxPeriod
MostSteps == 24    \* the advance that counting certifies
MostExtrapolated == 8

\* What a and b have in common depends on a modulo b.
CommonDivisor ==
    [b \in 1 .. MostSteps |-> [a \in 0 .. b - 1 |-> Max({d \in 1 .. b : a % d = 0 /\ b % d = 0})]]

Gcd(a, b) == CommonDivisor[b][a % b]

\* Division as the machine does it, towards zero.
Quot(a, b) == IF a >= 0 THEN a \div b ELSE -((-a) \div b)

\* How many batches go by before composition repeats; 1 where it never changes.
RotationPeriod(flipsPerSource, stride) ==
    LET period == flipsPerSource \div Gcd(stride, flipsPerSource)
    IN IF flipsPerSource <= 1 \/ stride <= 0 \/ flipsPerSource > MaxPeriod \/ period > MaxPeriod
       THEN 1 ELSE period

Positions(p) == 0 .. p.flipsPerSource - 1

\* Samples filed under the positions of an origin mean nothing under another.
NoEvidence(p) ==
    [p EXCEPT !.sum = [i \in Positions(p) |-> 0], !.count = [i \in Positions(p) |-> 0],
              !.valid = FALSE, !.realPhase = -1, !.gridPos = 0]

RotationReset(stride, flipsPerSource, separation) ==
    NoEvidence([stride |-> stride, flipsPerSource |-> flipsPerSource, separation |-> separation,
                period |-> RotationPeriod(flipsPerSource, stride), haveAnchor |-> FALSE,
                gridPos |-> 0, sum |-> <<>>, count |-> <<>>, valid |-> FALSE, realPhase |-> -1])

ReOrigin(p) == [NoEvidence(p) EXCEPT !.haveAnchor = TRUE]

\* The positions a stride can come to lie this far apart.
Reach(p) == IF p.flipsPerSource > 0 /\ p.stride > 0 THEN Gcd(p.stride, p.flipsPerSource) ELSE 1

\* Mutant: a position the stride cannot come to is believed.
OnLatticeAlways(p, next) == TRUE

OnLattice(p, next) == next % Reach(p) = 0

\* The position is carried on by the flips counted since the last anchor; an advance that is not
\* to be trusted starts a new origin, and only a first anchor is a position to vote on at once.
RotationAdvance(p, steps) ==
    LET next == (p.gridPos + steps) % p.flipsPerSource
    IN IF p.flipsPerSource <= 1 THEN [vote |-> p, ok |-> FALSE]
       ELSE IF ~p.haveAnchor THEN [vote |-> ReOrigin(p), ok |-> TRUE]
       ELSE IF steps \notin 1 .. MostSteps \/ ~OnLattice(p, next)
       THEN [vote |-> ReOrigin(p), ok |-> FALSE]
       ELSE [vote |-> [p EXCEPT !.gridPos = next], ok |-> TRUE]

-----------------------------------------------------------------------------
Mean(p, i) == Quot(p.sum[i], p.count[i])

Classes(p) == LET r == Reach(p) IN {i \in Positions(p) : i % r = 0}

\* Mutant: once there are enough samples no more are taken.
FiledForGood(p, offset) ==
    LET n == p.count[p.gridPos] + 1
    IN IF n > MinSamples THEN p
       ELSE [p EXCEPT !.sum[p.gridPos] = @ + offset, !.count[p.gridPos] = n]

\* One more sample, in sums that forget.
Filed(p, offset) ==
    LET s == p.sum[p.gridPos] + offset
        n == p.count[p.gridPos] + 1
    IN [p EXCEPT !.sum[p.gridPos] = IF n >= SampleCap THEN Quot(s, 2) ELSE s,
                 !.count[p.gridPos] = IF n >= SampleCap THEN n \div 2 ELSE n]

\* The mechanism's signature: one class ahead of its flips, every other behind, far enough apart.
Shaped(p, classes, best) ==
    /\ Mean(p, best) < 0
    /\ \A i \in classes \ {best} :
          Mean(p, i) > 0 /\ Mean(p, i) - Mean(p, best) >= p.separation

RotationObserve(p, offset) ==
    LET q == Filed(p, offset)
        classes == Classes(q)
        best == {b \in classes : Shaped(q, classes, b)}
        decided == /\ q.separation > 0
                   /\ Cardinality(classes) > 1
                   /\ \A i \in classes : q.count[i] >= MinSamples
                   /\ best # {}
    IN IF p.period <= 1 \/ ~p.haveAnchor THEN p
       ELSE IF decided
       THEN [q EXCEPT !.valid = TRUE, !.realPhase = CHOOSE b \in best : TRUE]
       ELSE [q EXCEPT !.valid = FALSE]

\* Which member of a batch is the real frame, -1 when that is not to be told.
RotationRealMember(p, pos) ==
    IF ~p.valid \/ p.period <= 1 \/ p.realPhase < 0 \/ pos < 0 THEN -1
    ELSE (p.realPhase - pos) % p.flipsPerSource

\* The position of a batch that came delta after the last anchor.
RotationPositionAt(p, delta, spacing) ==
    IF ~p.haveAnchor \/ p.flipsPerSource <= 1 \/ spacing <= 0
          \/ delta \notin 0 .. MostExtrapolated * spacing
    THEN -1
    ELSE (p.gridPos + ((delta + (spacing \div 2)) \div spacing)) % p.flipsPerSource
==============================================================================
