------------------------------ MODULE FlipAnchor ------------------------------
(***************************************************************************)
(* The flip grid of core/TemporalPolicy: the spacing of the known flips,   *)
(* the flip a batch belongs to, found by nearness or predicted by a chain  *)
(* of batches before it, and the lateness of the batch read off it.        *)
(*                                                                         *)
(* flips is the set of display times known of the card's head.             *)
(***************************************************************************)
EXTENDS Integers, Sequences, FiniteSets

CONSTANT Warmup    \* AnchorChain: predictions proven before a re-acquired chain corrects

GapWindow == 5      \* AnchorChain::kGapWindow
LeastGaps == 3      \* ChainBatchPeriod: fewer gaps are no cadence
LateRunLimit == 3   \* a run of late readings is the chain's own slip
MostStride == 8
MostBatches == 4    \* a chain spans no longer gap

Dist(a, b) == IF a > b THEN a - b ELSE b - a

\* The k-th smallest of the values f takes on its domain.
KthOf(f, k) == CHOOSE v \in {f[x] : x \in DOMAIN f} :
                  /\ Cardinality({x \in DOMAIN f : f[x] < v}) < k
                  /\ Cardinality({x \in DOMAIN f : f[x] <= v}) >= k

UpperMedian(f) == KthOf(f, (Cardinality(DOMAIN f) \div 2) + 1)

\* FlipHistory::InRange
InRange(flips, lo, hi) == {t \in flips : t >= lo /\ t <= hi}

\* The median gap of the flips in a window, 0 when it holds fewer than two.
MedianSpacing(flips, lo, hi) ==
    LET in == InRange(flips, lo, hi)
        later == {t \in in : \E u \in in : u < t}
        gap == [t \in later |-> t - (CHOOSE u \in in : u < t /\ \A w \in in : w < t => w <= u)]
    IN IF later = {} THEN 0 ELSE UpperMedian(gap)

\* The flip nearest to a time, the older of two as near.
Nearest(in, time) ==
    CHOOSE t \in in : \A u \in in : \/ Dist(t, time) < Dist(u, time)
                                    \/ Dist(t, time) = Dist(u, time) /\ t <= u

-----------------------------------------------------------------------------
FreshChain == [anchor |-> 0, anchorBatch |-> 0, seen |-> 0, any |-> FALSE,
               valid |-> FALSE, warmup |-> 0, lateRun |-> 0, gaps |-> <<>>]

\* A batch the chain cannot place yet, can never place, and one it places.
Unknown == [paired |-> FALSE, ahead |-> FALSE, offset |-> 0, warm |-> FALSE]
Ahead == [Unknown EXCEPT !.ahead = TRUE]

\* A batch offered again after its flip was not known is not counted again.
SeeBatch(chain, start) ==
    IF chain.any /\ start = chain.seen THEN chain
    ELSE [chain EXCEPT
            !.seen = start, !.any = TRUE,
            !.gaps = IF chain.any /\ start > chain.seen
                     THEN LET g == Append(@, start - chain.seen)
                          IN IF Len(g) > GapWindow THEN Tail(g) ELSE g
                     ELSE @]

BatchPeriod(chain) == IF Len(chain.gaps) < LeastGaps THEN 0 ELSE UpperMedian(chain.gaps)

\* How many flips a batch advances.
Stride(period, spacing) ==
    LET s == (period + (spacing \div 2)) \div spacing
    IN IF s < 1 THEN 1 ELSE IF s > MostStride THEN MostStride ELSE s

BatchesPast(chain, start, period) ==
    LET d == start - chain.anchorBatch + (period \div 2)
    IN IF d >= 0 THEN d \div period ELSE -((-d) \div period)

Broken(chain) == [chain EXCEPT !.valid = FALSE]

\* The stateless rule: the flip within a quarter step of the batch, which starts a new chain.
Acquire(flips, chain, start, spacing) ==
    LET in == InRange(flips, start - (spacing \div 4), start + (spacing \div 4) + spacing)
        best == Nearest(in, start)
    IN IF (spacing \div 4) <= 0 \/ in = {} \/ Dist(best, start) > (spacing \div 4)
       THEN [chain |-> chain, fit |-> Unknown]
       ELSE [chain |-> [chain EXCEPT !.anchor = best, !.anchorBatch = start,
                                     !.valid = TRUE, !.warmup = Warmup],
             fit |-> [Unknown EXCEPT !.paired = TRUE, !.offset = start - best]]

\* Mutant: a chain that always reads late is kept.
AcceptAlwaysLate(chain, start, best, spacing, period) ==
    LET late == start - best
        warm == IF chain.warmup > 0 THEN chain.warmup - 1 ELSE 0
    IN IF late <= -(spacing \div 2) \/ late >= (period * 3) \div 4
       THEN [chain |-> Broken(chain), fit |-> Unknown]
       ELSE [chain |-> [chain EXCEPT !.anchor = best, !.anchorBatch = start, !.warmup = warm],
             fit |-> [paired |-> TRUE, ahead |-> FALSE, offset |-> late, warm |-> warm = 0]]

\* One flip of the predicted window is the batch's, unless the batch is too far from it or the
\* chain reads late too often, which is its own slip.
Accept(chain, start, best, spacing, period) ==
    LET late == start - best
        run == IF late > spacing \div 8 THEN chain.lateRun + 1 ELSE 0
        warm == IF chain.warmup > 0 THEN chain.warmup - 1 ELSE 0
        within == late > -(spacing \div 2) /\ late < (period * 3) \div 4
    IN IF ~within THEN [chain |-> Broken(chain), fit |-> Unknown]
       ELSE IF run >= LateRunLimit
       THEN [chain |-> [Broken(chain) EXCEPT !.lateRun = 0], fit |-> Unknown]
       ELSE [chain |-> [chain EXCEPT !.anchor = best, !.anchorBatch = start,
                                     !.lateRun = run, !.warmup = warm],
             fit |-> [paired |-> TRUE, ahead |-> FALSE, offset |-> late, warm |-> warm = 0]]

\* Mutant: a flip that is not there yet is taken for one that never was.
PredictImpatient(flips, chain, start, spacing, period, n) ==
    LET at == chain.anchor + n * Stride(period, spacing) * spacing
        in == InRange(flips, at - (spacing \div 2), at + (spacing \div 2))
    IN IF in = {} THEN [chain |-> Broken(chain), fit |-> Unknown]
       ELSE Accept(chain, start, Nearest(in, at), spacing, period)

\* The chain's own prediction: not known yet, a flip, or nothing there.
Predict(flips, chain, start, spacing, period, n) ==
    LET at == chain.anchor + n * Stride(period, spacing) * spacing
        in == InRange(flips, at - (spacing \div 2), at + (spacing \div 2))
    IN IF flips # {} /\ \A t \in flips : t < at + (spacing \div 2)
       THEN [chain |-> chain, fit |-> Ahead]
       ELSE IF in = {} THEN [chain |-> Broken(chain), fit |-> Unknown]
       ELSE Accept(chain, start, Nearest(in, at), spacing, period)

\* AnchorBatchAt: a chain that breaks, or none, is acquired anew at this batch.
AnchorBatch(flips, before, start, spacing) ==
    LET chain == SeeBatch(before, start)
        period == BatchPeriod(chain)
        n == BatchesPast(chain, start, period)
        told == IF n \in 1 .. MostBatches THEN Predict(flips, chain, start, spacing, period, n)
                ELSE [chain |-> IF n > MostBatches THEN Broken(chain) ELSE chain, fit |-> Unknown]
    IN IF spacing <= 0 THEN [chain |-> before, fit |-> Unknown]
       ELSE IF ~chain.valid \/ period = 0 THEN Acquire(flips, chain, start, spacing)
       ELSE IF n = 0 \/ told.fit # Unknown THEN told
       ELSE Acquire(flips, told.chain, start, spacing)

\* MeasureLateness: what to take off the batch's stamps, nothing below an eighth of a step or from
\* a chain that is not warm; pending asks for the batch to be offered again.
MeasureLateness(flips, chain, start, window) ==
    LET spacing == MedianSpacing(flips, start - window, start)
        got == AnchorBatch(flips, chain, start, spacing)
    IN [chain |-> got.chain,
        pending |-> ~got.fit.paired /\ got.fit.ahead,
        late |-> IF got.fit.paired /\ got.fit.warm /\ got.fit.offset > spacing \div 8
                 THEN got.fit.offset ELSE 0]
==============================================================================
