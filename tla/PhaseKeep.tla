------------------------------ MODULE PhaseKeep ------------------------------
(***************************************************************************)
(* Phase-aware keep-real in CaptureRing::CaptureLoop: at every batch the   *)
(* loop decides whether frames come in pairs, measures the grid, feeds the *)
(* rotation vote the batch two back and asks it which member of the batch  *)
(* just opened is the real frame.                                          *)
(*                                                                         *)
(* The display flips on a steady grid, and every flipsPerSource-th flip    *)
(* shows a real frame.  A batch led by a real frame comes a little before  *)
(* its flip, any other a little after.                                     *)
(***************************************************************************)
EXTENDS RotationVote, Sequences, SequencesExt

CONSTANTS
    Source,         \* m_assumedSrcPeriodQpc, in ticks
    Separation,     \* the least margin between classes, in ticks
    Early,          \* how far a batch led by a real frame comes before its flip,
                    \* and any other after it
    Late,           \* how late a batch may come that is not placed any more
    Regimes,        \* what the generator and the game do: flips a source period, flips a
                    \* batch at first and later, members a batch; and how many batches may
                    \* come otherwise than they should, a bound for TLC
    Stalls,         \* how many flips a stall may take
    StallFirst      \* whether the first gap measured may be a stall's

ASSUME PhaseKeepAssumption ==
    /\ {Source, Separation, Early, Late} \subseteq Nat \ {0}
    /\ Stalls \subseteq Nat /\ StallFirst \in BOOLEAN
    /\ \A r \in Regimes : {r.flips, r.first, r.later, r.members} \subseteq Nat \ {0} /\ r.upsets \in Nat

VARIABLES
    regime,     \* the regime of this run
    advance,     \* flips from one batch to the next at present
    place,      \* where in the source period the newest batch's flip is; the real frame's is 0
    recent,     \* the newest batches, newest first: the flips since the batch before, how many
                \* of them are on record, the offset, and whether its own flip is
    members,    \* m_prevLastMember + 1 when the next batch opens
    pairing,    \* m_batchMembersEmaQ8
    period,     \* m_rotPeriodEma
    vote,       \* m_rotation
    since,      \* flips on record from the last anchor to the batch fed last
    age,        \* ticks from the last anchor to the newest batch's flip
    keeper,     \* m_rotRealMember
    slips,      \* history: records lost that the vote counted over since its origin
    upsets

keepVars == <<regime, advance, place, recent, members, pairing, period, vote, since, age, keeper,
          slips, upsets>>

Spacing == Source \div regime.flips
CountCap == 24       \* CountFlipsBetween lists no more records
VoteLag == 2         \* kVoteLagBatches
PairedQ8 == 410

NoVote == [RotationReset(1, 1, Separation) EXCEPT !.stride = 0, !.flipsPerSource = 0]

KeepInit ==
    /\ regime \in Regimes /\ advance = regime.first
    /\ place \in 0 .. Gcd(regime.first, regime.flips) - 1   \* one of each class
    /\ recent = <<>> /\ members = 0 /\ pairing = 0 /\ period = 0
    /\ vote = NoVote /\ since = 0 /\ age = 0 /\ keeper = -1
    /\ slips = 0 /\ upsets = 0

-----------------------------------------------------------------------------
Ema8(ema, sample) == (ema * 7 + sample) \div 8

\* The running average of members a batch.
Pairing == IF recent = <<>> THEN pairing
           ELSE IF pairing = 0 THEN members * 256 ELSE Ema8(pairing, members * 256)

\* The batch period: only gaps from half to double of it are folded in.
FoldedPeriod(gap) ==
    IF period = 0 THEN IF gap < (Source * 15) \div 2 THEN gap ELSE 0
    ELSE IF gap > period \div 2 /\ gap < period * 2 THEN Ema8(period, gap) ELSE period

\* TemporalCaptureMode::Grid, the flips a batch and a source period take.
GridStride(per) == (per + (Spacing \div 2)) \div Spacing
GridFlips == (Source + (Spacing \div 2)) \div Spacing

\* A grid that changed drops the vote.
Regridded(per) ==
    IF GridStride(per) = vote.stride /\ GridFlips = vote.flipsPerSource THEN vote
    ELSE RotationReset(GridStride(per), GridFlips, Separation)

\* A batch can be placed whose own flip is on record and near it.
Placed(b) == b.own /\ b.offset <= Spacing \div 4 /\ -b.offset <= Spacing \div 4

\* The flips counted from the last anchor to a batch.
Counted(b) == IF since + b.records > CountCap THEN CountCap ELSE since + b.records

\* The batch VoteLag back is fed, if it can be placed: the vote, whether its anchor moved, and
\* whether its origin did.
Fed(p, batches) ==
    IF Len(batches) <= VoteLag \/ ~Placed(batches[VoteLag + 1])
    THEN [vote |-> p, anchored |-> FALSE, origin |-> ~p.haveAnchor]
    ELSE LET b == batches[VoteLag + 1]
             a == RotationAdvance(p, IF p.haveAnchor THEN Counted(b) ELSE 1)
         IN [vote |-> IF a.ok THEN RotationObserve(a.vote, b.offset) ELSE a.vote,
             anchored |-> a.vote.haveAnchor,
             origin |-> ~p.haveAnchor \/ ~a.ok]

\* Which member of the batch just opened is kept: none while the vote stands and the batch cannot
\* be placed.
Keeper(p, delta) ==
    LET m == RotationRealMember(p, RotationPositionAt(p, delta, Spacing))
    IN IF p.valid /\ m < 0 THEN p.flipsPerSource ELSE m

Offset(n) == IF (place + n) % regime.flips = 0 THEN -Early ELSE Early

\* How far a batch takes the count from the flips it should come to: by a record lost, or by a stall
\* that is no multiple of the stride.
Strayed(p, b) == b.flips - b.records + (b.flips % Reach(p))

\* Mutant: the frames' pairs are not asked for.
PairedAnyway(ema) == TRUE

Paired(ema) == ema >= PairedQ8

\* The loop at the open of a batch n flips after the one before.
Open(n, offset, lost, own) ==
    LET b == [flips |-> n, records |-> n - lost, offset |-> offset, own |-> own]
        batches == SubSeq(<<b>> \o recent, 1, Min({VoteLag + 1, Len(recent) + 1}))
        gap == IF recent = <<>> THEN 0 ELSE n * Spacing + offset - recent[1].offset
        per == IF gap > 0 THEN FoldedPeriod(gap) ELSE period
        runs == Paired(Pairing) /\ per > 0
        grid == Regridded(per)
        fed == Fed(grid, batches)
        next == IF Len(batches) > VoteLag THEN batches[VoteLag + 1].records ELSE 0
        old == IF Len(batches) > VoteLag THEN Strayed(fed.vote, batches[VoteLag + 1]) ELSE 0
        further == Min({age + n * Spacing, (MostExtrapolated + 2) * Spacing})
    IN /\ recent' = batches
       /\ place' = (place + n) % regime.flips
       /\ pairing' = Pairing
       /\ period' = IF Paired(Pairing) THEN per ELSE period
       /\ IF runs
          THEN /\ vote' = fed.vote
               /\ age' = IF fed.anchored THEN (batches[1].flips + batches[2].flips) * Spacing ELSE further
               /\ keeper' = Keeper(fed.vote, age' + offset)
               /\ since' = IF fed.anchored THEN 0 ELSE Min({since + next, CountCap + 1})
               /\ slips' = IF fed.origin THEN 0 ELSE Min({slips + old, MaxPeriod})
          ELSE /\ keeper' = -1
               /\ since' = Min({since + next, CountCap + 1})
               /\ age' = further
               /\ slips' = Min({slips + old, MaxPeriod})
               /\ UNCHANGED vote

Upset == upsets < regime.upsets /\ upsets' = upsets + 1

OnBeat ==
    /\ Open(advance, Offset(advance), 0, TRUE)
    /\ members' = regime.members
    /\ UNCHANGED <<regime, advance, upsets>>

\* A batch is dropped, or the source stalls, and its flips go on.
BatchesMissed ==
    /\ Upset
    /\ \E n \in {2 * advance} \union (IF period > 0 \/ StallFirst THEN Stalls ELSE {}) :
          Open(n, Offset(n), 0, TRUE)
    /\ members' = regime.members
    /\ UNCHANGED <<regime, advance>>

\* A batch comes too late to be placed, or as one led by the other kind of frame does; the bound on
\* upsets lets this happen once and last.
BatchOffBeat ==
    /\ upsets < regime.upsets /\ upsets' = regime.upsets
    /\ \E off \in {Late, -Offset(advance)} : Open(advance, off, 0, TRUE)
    /\ members' = regime.members
    /\ UNCHANGED <<regime, advance>>

\* A flip's record is lost, the batch's own or one before it.
RecordLost ==
    /\ Upset
    /\ \E own \in BOOLEAN : Open(advance, Offset(advance), 1, own)
    /\ members' = regime.members
    /\ UNCHANGED <<regime, advance>>

\* A batch has a member too many or one too few, once and last like the above.
OddBatch ==
    /\ upsets < regime.upsets /\ upsets' = regime.upsets
    /\ Open(advance, Offset(advance), 0, TRUE)
    /\ members' = 3 - regime.members
    /\ UNCHANGED <<regime, advance>>

\* The game goes over to its other pace.
PaceChanges ==
    /\ Upset /\ regime.later # advance
    /\ advance' = regime.later
    /\ Open(regime.later, Offset(regime.later), 0, TRUE)
    /\ members' = regime.members
    /\ UNCHANGED regime

KeepNext ==
    \/ OnBeat \/ BatchesMissed \/ BatchOffBeat \/ RecordLost \/ OddBatch \/ PaceChanges

KeepSpec == KeepInit /\ [][KeepNext]_keepVars

-----------------------------------------------------------------------------
RealMember == (-place) % regime.flips

\* The frames of the regime change their places from batch to batch.
Rotates == RotationPeriod(regime.flips, advance) > 1 /\ regime.members > 1

Steered == keeper >= 0

Truly == keeper \in {RealMember, regime.flips}

\* What the vote names is the real frame, or nothing is kept, also after dropped batches, stalls,
\* batches that cannot be placed and odd ones: counting flips carries the position over all of
\* these.  Only a record lost misleads it, and where the advance visits every other position not even
\* one.
SteersTrue == Steered /\ slips < Reach(vote) => Truly

\* Where nothing rotates no batch is ever steered.
NoFalseSteering == Steered => Rotates \/ advance # regime.first

\* Whatever happened, in the end the vote steers again and steers to the real frames, where a batch
\* led by a real frame occurs.
Leads == \E k \in 0 .. regime.flips - 1 : (place + k * advance) % regime.flips = 0

VoteRecovers == <>[](Rotates /\ Leads => Steered /\ Truly)

\* What is kept out of the cadence is a stall's gap and not the batches' own: these fall within the
\* band that is folded.
CadenceFollows ==
    period > 0 => advance * Spacing > period \div 2 /\ advance * Spacing < period * 2
=============================================================================
