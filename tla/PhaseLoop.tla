------------------------------ MODULE PhaseLoop ------------------------------
(***************************************************************************)
(* The comb lock in its loop: a source that draws a frame every comb, the  *)
(* ring that holds its last frames, and TemporalCaptureMode's present      *)
(* loop, which reads the ring around a target the lock itself moves.  The  *)
(* source may hitch: draw its next frame early or late, on the old phase   *)
(* or on another one.                                                      *)
(*                                                                         *)
(* Time is relative: every frame has an age, which grows by the present's  *)
(* interval from one present to the next.                                  *)
(***************************************************************************)
EXTENDS PhaseLock, Sequences

CONSTANTS
    Lag,        \* m_bracketingDelayQpc
    Intervals,  \* the present clocks considered, by their interval
    Hitches,    \* how far behind a frame the next one may come, other than a comb
    MaxHitches  \* bound on hitches, for TLC

ASSUME LoopAssumption ==
    /\ Lag \in Nat /\ MaxHitches \in Nat
    /\ Intervals \subseteq Nat \ {0} /\ Hitches \subseteq Nat \ {0}

VARIABLES
    interval,  \* the present clock of this run
    ages,      \* the ages of the ring's frames, newest first
    next,      \* the age of the frame the source draws next, negative while it is to come
    hitches,   \* how many hitches there were
    lock,      \* m_lockState
    la,        \* m_lookahead
    presents,  \* m_presentHist.count
    moved      \* history: the lookahead's last move of the pull since the last hitch

vars == <<interval, ages, next, hitches, lock, la, presents, moved>>

PresentMeanSpan == 16  \* kPresentMeanSpan

Init ==
    /\ interval \in Intervals
    /\ ages = <<>> /\ next = 0 /\ hitches = 0
    /\ lock = FirstLock /\ la = FirstLookahead
    /\ presents = 0 /\ moved = "no"

-----------------------------------------------------------------------------
\* A frame is due: it goes into the ring, and the next one comes a comb later or hitches.
SourceDraws ==
    /\ next >= 0
    /\ ages' = SubSeq(<<next>> \o ages, 1, Smaller(Len(ages) + 1, RingFrames))
    /\ la' = [la EXCEPT !.unseen = Smaller(@ + 1, RingFrames)]
    /\ \/ next' = next - Comb /\ UNCHANGED <<hitches, moved>>
       \/ /\ hitches < MaxHitches
          /\ \E gap \in Hitches : next' = next - gap
          /\ hitches' = hitches + 1 /\ moved' = "no"
    /\ UNCHANGED <<interval, lock, presents>>

\* The target's age before and after a planned move.
Planned == Lag + lock.pull + lock.ease

Rephased == ApplyToLock(la, lock, Planned)

Target == Planned + Rephased.pull - lock.pull

\* Frames are in order of age, so the bracket is the first at or before the target and the one
\* before it in the ring.
NewerThan(t) == Cardinality({i \in DOMAIN ages : ages[i] < t})

Bracket ==
    LET t == Target
        n == NewerThan(t)
    IN [before |-> IF n < Len(ages) THEN ages[n + 1] - t ELSE -1,
        after |-> IF n > 0 THEN t - ages[n] ELSE -1]

Recent ==
    LET t == Target
        n == NewerThan(t)
    IN [target |-> t,
        ahead |-> [i \in 1 .. n |-> ages[i] - t],
        behind |-> [i \in 1 .. Smaller(MaxAt, Len(ages) - n) |-> ages[n + i] - t]]

Resumed == Resumes(Rephased, Bracket)

\* RecordPresent: the mean interval, once enough presents came before.
MeanInterval == IF presents >= PresentMeanSpan THEN interval ELSE 0

\* The lock after this present's bracket.
Locked ==
    LET b == Bracket
        resumed == Resumes(Rephased, b)
        counted == CountStall(Rephased, b)
        updated == IF Stalled(b) THEN counted ELSE UpdatePhaseLock(counted, b, resumed)
    IN IF resumed THEN ArmExemption(updated, MeanInterval) ELSE updated

\* The next present is an interval away.
Wait ==
    /\ ages' = [i \in DOMAIN ages |-> ages[i] + interval]
    /\ next' = next + interval

Present ==
    /\ next < 0
    /\ LET locked == Locked
           new == UpdateLookahead(ApplyToLookahead(la, Planned), locked, Recent, Resumed)
       IN /\ lock' = ConsumeExemption(locked)
          /\ la' = [new EXCEPT !.first = IF new.pending /\ ~new.late THEN @ + interval ELSE 0]
    /\ presents' = Smaller(presents + 1, PresentMeanSpan)
    /\ moved' = IF ~Fires(la, Planned) THEN moved ELSE IF la.late THEN "late" ELSE "ahead"
    /\ Wait
    /\ UNCHANGED <<interval, hitches>>

Next == SourceDraws \/ Present

\* The source draws and the clock presents for ever.
Spec == Init /\ [][Next]_vars /\ []<><<Next>>_vars

-----------------------------------------------------------------------------
\* How far the target is off the comb, as the lock sees it (without a wrap's easing).
Off == Magnitude(WrapHalf(Bracket.before + lock.ease))

OnPhase == Bracket.before >= 0 => Off < Passthrough

\* The pull stays in the band around one comb, whatever sequence of snaps, slews, wraps and
\* planned moves made it; a planned move may leave it by half a comb where a stall holds up the
\* lock's next step, which brings it back.  The easing never exceeds a comb, and only a plan for
\* the next present is a late one.
LockInv ==
    /\ lock.pull >= -PullWrapBelow - (IF lock.stallRun > 0 THEN Comb \div 2 ELSE 0)
    /\ lock.pull < Comb + PullWrapAbove + (IF lock.stallRun > 0 THEN Comb \div 2 ELSE 0)
    /\ Magnitude(lock.ease) <= Comb
    /\ Magnitude(lock.errEma) <= Comb \div 2
    /\ lock.devEma \in 0 .. Comb \div 2
    /\ lock.stallRun \in 0 .. StallRunPresents
    /\ lock.recoverRun \in 0 .. RecoverPresents
    /\ lock.reengageRun \in -1 .. EngageConfirmPresents
    /\ lock.exemptLeft \in 0 .. ExemptPresents
    /\ Magnitude(la.size) <= Comb \div 2
    /\ la.late => la.pending

LockStep == lock.pull + lock.ease

Jumps == Magnitude(lock'.pull - Rephased.pull) > Comb \div 2 /\ lock'.ease = 0

\* From one present to the next the lock moves the target by no more than the slew and one step
\* of an easing, except on a resume, a planned move, or a wrap made between frames, which jumps.
SmoothTarget ==
    [][Present => \/ Resumed \/ Fires(la, Planned) \/ Jumps
                  \/ Magnitude(LockStep' - LockStep) <= RecoverSlew + (Comb \div EasePresents)]_vars

\* A wrap while the easing of one before, the same way, is not over: the two are more than a comb,
\* which is all the easing can take back.
WrapsAgain ==
    /\ Present /\ ~Resumed /\ ~Fires(la, Planned)
    /\ Magnitude(lock'.pull - lock.pull) > Comb \div 2
    /\ lock.ease # 0 /\ (lock.ease < 0 <=> lock'.pull > lock.pull)

\* The easing of a wrap is over before the pull, drifting or moved by plans, wraps the same way
\* again.
OneWrapAtATime == [][~WrapsAgain]_vars

\* The present clock runs at the source's rate, or near it.
AtSourceRate == interval * 8 >= SrcPeriod * 7

\* A resume on which the lock is engaged puts the very next target on the source's frames, and
\* the tooth guard stands aside for that target.
SnapLands ==
    [][Present /\ Resumed /\ lock'.engaged /\ AtSourceRate =>
          OnPhase' /\ (MeanInterval > 0 => lock'.exemptLeft > 0)]_vars

\* Once the lookahead has moved the pull onto a step it saw ahead of the target, the target stays
\* on the source's frames: the lock, whose estimate knows nothing of the move, does not pull it
\* back.
MoveStays == moved = "ahead" => OnPhase

\* Near the source's rate the target ends on its frames and stays there, whatever hitches there
\* were.
AtPhase == AtSourceRate => OnPhase

Converges == <>[]AtPhase
==============================================================================
