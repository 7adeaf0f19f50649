--------------------------- MODULE PhaseLoopProofs ---------------------------
(***************************************************************************)
(* What is proved of module PhaseLoop, for every comb, slew and easing,    *)
(* every present clock, every way and number of hitches: the pull and the  *)
(* lookahead's plan stay in their bounds, and the target moves smoothly.   *)
(***************************************************************************)
EXTENDS PhaseLoop, FiniteSetTheorems, SequenceTheorems, WellFoundedInduction, TLAPS

Half == Comb \div 2

\* Up to half a comb either way.
Near == -Half .. Half

LockState ==
    [pull : Int, ease : -Comb .. Comb, errEma : Near, devEma : 0 .. Half,
     engaged : BOOLEAN, seeded : BOOLEAN, stallRun : 0 .. StallRunPresents,
     recoverRun : 0 .. RecoverPresents, reengageRun : -1 .. EngageConfirmPresents,
     exemptLeft : 0 .. ExemptPresents]

Plan == [pending : BOOLEAN, late : BOOLEAN, size : Near, first : Int, confirm : Nat, unseen : Nat]

LoopType ==
    /\ interval \in Nat /\ ages \in Seq(Int) /\ next \in Int /\ presents \in Nat
    /\ lock \in LockState /\ la \in Plan

InBand(pull, more) == -PullWrapBelow - more <= pull /\ pull < Comb + PullWrapAbove + more

\* A stalled lock may be where a planned move has left it, and then no other move is planned.
LoopInv ==
    /\ LoopType
    /\ InBand(lock.pull, IF lock.stallRun > 0 THEN Half ELSE 0)
    /\ lock.stallRun > 0 => ~la.pending
    /\ la.late => la.pending

-----------------------------------------------------------------------------
\* The arithmetic of the comb.

LEMMA Constants ==
    /\ Comb \in Nat /\ Comb >= 32 /\ SteadySlew \in Nat /\ Passthrough \in Nat /\ StallSpan \in Nat
    /\ SrcPeriod \in Nat /\ EasePresents \in Nat /\ RingFrames \in Nat
    /\ Lag \in Nat /\ MaxHitches \in Nat /\ Intervals \subseteq Nat \ {0} /\ Hitches \subseteq Nat \ {0}
BY LockAssumption, LoopAssumption

\* The comb's fractions.
LEMMA Fractions ==
    /\ Half \in Nat /\ Half >= 16 /\ 2 * Half <= Comb /\ Comb <= 2 * Half + 1
    /\ PullWrapBelow \in Nat /\ PullWrapBelow >= 2 /\ PullWrapAbove \in Nat
    /\ RecoverSlew \in Nat
BY Constants DEF Half, PullWrapBelow, PullWrapAbove, RecoverSlew

\* A wrapped distance is half a comb at the most.
LEMMA Wrapped ==
    ASSUME NEW d \in Int
    PROVE  WrapHalf(d) \in Near
<1>1. (d + Half) % Comb \in 0 .. Comb - 1
  BY Constants, Fractions
<1> QED BY <1>1, Constants, Fractions DEF WrapHalf, Near, Half

LEMMA Magnitudes ==
    /\ \A d \in Near : Magnitude(d) \in 0 .. Half
    /\ \A d \in Int : Magnitude(d) \in Nat
BY Fractions DEF Magnitude, Near

\* A quotient is nearer zero than what is divided.
LEMMA Quotients ==
    ASSUME NEW a \in Int
    PROVE  /\ Quot(a, RecoverAlpha) \in Int /\ Quot(a, SteadyAlpha) \in Int
           /\ a \in -2 * Half .. 2 * Half => Quot(a, 2) \in Near
BY Fractions DEF Quot, RecoverAlpha, SteadyAlpha, Near

LEMMA Clamped ==
    ASSUME NEW d \in Int, NEW most \in Nat
    PROVE  /\ Clamp(d, most) \in -most .. most
           /\ d >= 0 => Clamp(d, most) \in 0 .. d
           /\ d <= 0 => Clamp(d, most) \in d .. 0
BY DEF Clamp

-----------------------------------------------------------------------------
\* The median.

\* A set of numbers has a least one,
LEMMA LeastOne ==
    ASSUME NEW S, S \subseteq Nat, S # {}
    PROVE  \E u \in S : \A v \in S : u <= v
<1> DEFINE R == {p \in Nat \X Nat : p[1] < p[2]}
<1>1. IsWellFoundedOn(R, Nat)
  BY NatLessThanWellFounded, Zenon DEF OpToRel
<1> HIDE DEF R
<1>2. PICK x \in S : \A y \in S : <<y, x>> \notin R
  BY <1>1, WFMin
<1>3. ASSUME NEW y \in S PROVE x <= y
  <2>1. x \in Nat /\ y \in Nat /\ <<y, x>> \notin R
    BY <1>2
  <2>2. \A a, b \in Nat : a < b => <<a, b>> \in R
    BY SMT DEF R
  <2> QED BY <2>1, <2>2
<1> QED BY <1>3

\* and one of numbers up to some n a greatest.
LEMMA GreatestOne ==
    ASSUME NEW n \in Nat, NEW S, S \subseteq 1 .. n, S # {}
    PROVE  \E u \in S : \A v \in S : v <= u
<1> DEFINE D == {d \in 0 .. n : n - d \in S}
<1>1. PICK s \in S : s \in 1 .. n
  OBVIOUS
<1>2. n - s \in D /\ D \subseteq Nat
  BY <1>1
<1>3. PICK d \in D : \A e \in D : d <= e
  BY <1>2, LeastOne
<1>4. ASSUME NEW v \in S PROVE v <= n - d
  <2>1. v \in 1 .. n
    OBVIOUS
  <2>2. n - v \in D
    BY <2>1
  <2> QED BY <1>3, <2>1, <2>2
<1> QED BY <1>3, <1>4

\* Among a few values there is always a k-th.
LEMMA NthThere ==
    ASSUME NEW n \in Nat, NEW v \in [1 .. n -> Near], NEW k \in 1 .. n
    PROVE  Nth(v, k) \in Near
<1> DEFINE UpTo(x) == {i \in 1 .. n : v[i] <= x}
           Below(x) == {i \in 1 .. n : v[i] < x}
           Reached == {y \in Nat : Cardinality(UpTo(y - Half)) >= k}
<1>0. Half \in Nat
  BY Fractions
<1>1. IsFiniteSet(1 .. n) /\ Cardinality(1 .. n) = n
  BY FS_Interval
<1>2. ASSUME NEW x PROVE Cardinality(UpTo(x)) \in Nat /\ Cardinality(Below(x)) \in Nat
  BY <1>1, FS_Subset, FS_CardinalityType
<1>3. 2 * Half \in Reached
  <2>1. \A i \in 1 .. n : v[i] <= 2 * Half - Half
    BY <1>0 DEF Near
  <2>2. UpTo(2 * Half - Half) = 1 .. n
    BY <2>1
  <2>3. Cardinality(UpTo(2 * Half - Half)) >= k
    <3>1. Cardinality(UpTo(2 * Half - Half)) = n
      BY <1>1, <2>2
    <3> HIDE DEF UpTo
    <3> QED BY <3>1
  <2>4. 2 * Half \in Nat
    BY <1>0
  <2> QED BY <2>3, <2>4
<1>4. PICK y \in Reached : \A z \in Reached : y <= z
  BY <1>3, LeastOne
<1> DEFINE x == y - Half
<1>5. y \in Nat /\ x \in Int /\ Cardinality(UpTo(x)) >= k
  BY <1>0, <1>4
<1>6. Cardinality(UpTo(x - 1)) < k
  <2>1. CASE y = 0
    <3>1. \A i \in 1 .. n : ~(v[i] <= x - 1)
      BY <1>0, <2>1 DEF Near
    <3>2. UpTo(x - 1) = {}
      BY <3>1
    <3>3. Cardinality(UpTo(x - 1)) = 0
      BY <3>2, FS_EmptySet
    <3> QED BY <3>3
  <2>2. CASE y # 0
    <3>1. y - 1 \in Nat /\ ~(y <= y - 1)
      BY <1>5, <2>2
    <3>2. y - 1 \notin Reached
      BY <1>4, <3>1
    <3>3. (y - 1) - Half = x - 1
      BY <1>0, <1>5
    <3>4. ~(Cardinality(UpTo(x - 1)) >= k)
      BY <3>1, <3>2, <3>3
    <3>5. Cardinality(UpTo(x - 1)) \in Nat
      BY <1>2
    <3> QED BY <3>4, <3>5
  <2> QED BY <2>1, <2>2
<1>7. Below(x) = UpTo(x - 1)
  <2>1. \A i \in 1 .. n : v[i] < x <=> v[i] <= x - 1
    <3>1. x \in Int /\ \A i \in 1 .. n : v[i] \in Int
      BY <1>0, <1>5 DEF Near
    <3> HIDE DEF x
    <3> QED BY <3>1
  <2> QED BY <2>1
<1>8. \E i \in 1 .. n : v[i] = x
  <2> SUFFICES ASSUME \A i \in 1 .. n : v[i] # x
               PROVE  FALSE
    OBVIOUS
  <2>1. \A i \in 1 .. n : v[i] <= x <=> v[i] <= x - 1
    <3>1. x \in Int /\ \A i \in 1 .. n : v[i] \in Int
      BY <1>0, <1>5 DEF Near
    <3> HIDE DEF x
    <3> QED BY <3>1
  <2>2. UpTo(x) = UpTo(x - 1)
    BY <2>1
  <2>3. Cardinality(UpTo(x)) \in Nat
    BY <1>2
  <2>4. Cardinality(UpTo(x)) >= k /\ Cardinality(UpTo(x)) < k
    BY <1>5, <1>6, <2>2
  <2> HIDE DEF UpTo
  <2> QED BY <2>3, <2>4
<1> HIDE DEF x
<1> DEFINE Is(z) == Cardinality(Below(z)) < k /\ Cardinality(UpTo(z)) >= k
<1>9. x \in {v[i] : i \in 1 .. n} /\ Is(x)
  BY <1>5, <1>6, <1>7, <1>8
<1>10. Nth(v, k) = CHOOSE z \in {v[i] : i \in 1 .. n} : Is(z)
  BY DEF Nth
<1>11. Nth(v, k) \in {v[i] : i \in 1 .. n}
  BY <1>9, <1>10
<1> QED BY <1>11

\* The median of distances of half a comb is one.
LEMMA Medians ==
    ASSUME NEW n \in Nat \ {0}, NEW v \in [1 .. n -> Near]
    PROVE  MedianOf(v) \in Near
<1>1. DOMAIN v = 1 .. n /\ Cardinality(1 .. n) = n
  BY FS_Interval
<1>2. (n + 1) \div 2 \in 1 .. n /\ n \div 2 \in Nat
  OBVIOUS
<1>3. Nth(v, (n + 1) \div 2) \in Near
  BY <1>2, NthThere
<1>4. n \div 2 + 1 \in 1 .. n
  OBVIOUS
<1>5. Nth(v, n \div 2 + 1) \in Near
  BY <1>4, NthThere
<1> DEFINE both == Nth(v, (n + 1) \div 2) + Nth(v, n \div 2 + 1)
<1>6. both \in Int /\ both \in -2 * Half .. 2 * Half
  BY <1>3, <1>5, Fractions DEF Near
<1>7. MedianOf(v) = Quot(both, 2)
  BY <1>1 DEF MedianOf
<1> HIDE DEF both
<1> QED BY <1>6, <1>7, Quotients

-----------------------------------------------------------------------------
\* The lock.

\* A new estimate is half a comb at the most, and so is the mean of how far it is off.
LEMMA MeasureKeeps ==
    ASSUME NEW s \in LockState, NEW err \in Near, NEW resumed \in BOOLEAN
    PROVE  /\ Measure(s, err, resumed) \in LockState
           /\ Measure(s, err, resumed).pull = s.pull /\ Measure(s, err, resumed).ease = s.ease
<1> DEFINE alpha == IF s.recoverRun > 0 THEN RecoverAlpha ELSE SteadyAlpha
           ema == IF ~s.seeded \/ resumed THEN err
                  ELSE WrapHalf(s.errEma + Quot(WrapHalf(err - s.errEma), alpha))
           off == Magnitude(WrapHalf(err - ema))
           dev == (s.devEma * 15 + off) \div 16
<1>1. Half \in Nat /\ err \in Int /\ s.errEma \in Near /\ s.errEma \in Int /\ s.devEma \in 0 .. Half
  BY Fractions DEF LockState, Near
<1>2. ema \in Near
  <2>1. CASE ~s.seeded \/ resumed
    BY <2>1
  <2>2. CASE ~(~s.seeded \/ resumed)
    <3>1. WrapHalf(err - s.errEma) \in Int
      BY <1>1, Wrapped DEF Near
    <3>2. Quot(WrapHalf(err - s.errEma), alpha) \in Int
      BY <3>1, Quotients
    <3>3. WrapHalf(s.errEma + Quot(WrapHalf(err - s.errEma), alpha)) \in Near
      BY <1>1, <3>2, Wrapped
    <3> QED BY <2>2, <3>3
  <2> QED BY <2>1, <2>2
<1> HIDE DEF ema
<1>3. off \in 0 .. Half
  <2>1. err - ema \in Int
    BY <1>1, <1>2 DEF Near
  <2> QED BY <2>1, Wrapped, Magnitudes
<1> HIDE DEF off
<1>4. dev \in 0 .. Half
  BY <1>1, <1>3
<1> HIDE DEF dev
<1>5. Measure(s, err, resumed) =
          [s EXCEPT !.errEma = ema, !.devEma = dev, !.seeded = TRUE,
                    !.recoverRun = IF resumed THEN RecoverPresents ELSE s.recoverRun,
                    !.engaged = dev < Comb \div 8]
  BY DEF Measure, ema, dev, off
<1>6. (dev < Comb \div 8) \in BOOLEAN
  OBVIOUS
<1>7. (IF resumed THEN RecoverPresents ELSE s.recoverRun) \in 0 .. RecoverPresents
  BY DEF LockState, RecoverPresents
<1> QED BY <1>2, <1>4, <1>5, <1>6, <1>7 DEF LockState

LEMMA ConfirmKeeps ==
    ASSUME NEW s \in LockState, NEW wasSeeded \in BOOLEAN, NEW wasEngaged \in BOOLEAN
    PROVE  LET c == ConfirmReengage(s, wasSeeded, wasEngaged)
           IN c \in LockState /\ c.pull = s.pull /\ c.ease = s.ease /\ c.errEma = s.errEma
<1> DEFINE run == IF wasSeeded /\ ~wasEngaged /\ s.recoverRun = 0 THEN 0 ELSE s.reengageRun
           settled == s.devEma < EngageStable
           opens == /\ settled /\ s.recoverRun = 0 /\ Passthrough > 0
                    /\ Magnitude(s.errEma) >= Passthrough
           recover == IF opens THEN RecoverPresents ELSE s.recoverRun
           again == IF settled \/ run >= EngageConfirmPresents THEN -1 ELSE run + 1
<1>1. run \in -1 .. EngageConfirmPresents
  BY DEF LockState, EngageConfirmPresents
<1> HIDE DEF run, settled
<1>2. ASSUME ~(run < 0) PROVE again \in -1 .. EngageConfirmPresents
  BY <1>1, <1>2 DEF EngageConfirmPresents
<1>3. recover \in 0 .. RecoverPresents
  BY DEF LockState, RecoverPresents
<1> HIDE DEF recover, again
<1>4. ConfirmReengage(s, wasSeeded, wasEngaged) =
          IF ~s.engaged THEN [s EXCEPT !.reengageRun = -1]
          ELSE IF run < 0 THEN [s EXCEPT !.reengageRun = run]
          ELSE [s EXCEPT !.recoverRun = recover, !.reengageRun = again]
  BY DEF ConfirmReengage, run, settled, recover, again
<1>5. -1 \in -1 .. EngageConfirmPresents
  BY DEF EngageConfirmPresents
<1> QED BY <1>1, <1>2, <1>3, <1>4, <1>5 DEF LockState

\* The pull moves by half a comb at the most, unless it only goes back toward none; a wrap takes
\* whatever comes of that back into the band.
LEMMA PullReturns ==
    ASSUME NEW s \in LockState, NEW resumed \in BOOLEAN, InBand(s.pull, Half)
    PROVE  LET pulled == s.pull + PullDelta(s, resumed)
           IN pulled \in Int /\ pulled + WrapOf(pulled) \in Int /\ InBand(pulled + WrapOf(pulled), 0)
<1> DEFINE slew == IF s.recoverRun > 0 THEN RecoverSlew ELSE SteadySlew
           pulled == s.pull + PullDelta(s, resumed)
<1>1. s.pull \in Int /\ s.errEma \in -Half .. Half /\ slew \in Nat /\ Half \in Nat
  BY Constants, Fractions DEF LockState, Near
<1> HIDE DEF slew
<1>2. pulled \in Int /\ InBand(pulled, 2 * Half)
  <2>1. CASE resumed /\ s.engaged
    <3>1. PullDelta(s, resumed) = s.errEma
      BY <1>1, <2>1 DEF PullDelta
    <3> QED BY <1>1, <3>1, Fractions, Constants DEF InBand
  <2>2. CASE ~resumed /\ s.engaged
    <3>1. PullDelta(s, resumed) = Clamp(s.errEma, slew)
      <4>1. (s.pull + s.errEma) - s.pull = s.errEma
        BY <1>1
      <4> QED BY <2>2, <4>1 DEF PullDelta, slew
    <3> DEFINE d == s.errEma
    <3>0. d \in Int /\ d \in -Half .. Half
      BY <1>1
    <3> HIDE DEF d
    <3>2. Clamp(d, slew) \in -Half .. Half
      <4>1. (d >= 0 => Clamp(d, slew) \in 0 .. d) /\ (d <= 0 => Clamp(d, slew) \in d .. 0)
        BY <1>1, <3>0, Clamped
      <4> QED BY <1>1, <3>0, <4>1
    <3>3. PullDelta(s, resumed) \in -Half .. Half
      BY <3>1, <3>2 DEF d
    <3> QED BY <1>1, <3>3, Fractions, Constants DEF InBand
  <2>3. CASE ~s.engaged
    <3>1. PullDelta(s, resumed) = Clamp(-s.pull, slew)
      <4>1. 0 - s.pull = -s.pull
        BY <1>1
      <4> QED BY <2>3, <4>1 DEF PullDelta, slew
    <3>2. /\ PullDelta(s, resumed) \in Int
          /\ s.pull >= 0 => PullDelta(s, resumed) \in -s.pull .. 0
          /\ s.pull <= 0 => PullDelta(s, resumed) \in 0 .. -s.pull
      <4> DEFINE d == -s.pull
      <4>1. d \in Int
        BY <1>1
      <4> HIDE DEF d
      <4>2. (d >= 0 => Clamp(d, slew) \in 0 .. d) /\ (d <= 0 => Clamp(d, slew) \in d .. 0)
        BY <1>1, <4>1, Clamped
      <4>3. PullDelta(s, resumed) = Clamp(d, slew)
        BY <3>1 DEF d
      <4> QED BY <1>1, <4>1, <4>2, <4>3 DEF d
    <3> QED BY <1>1, <3>2, Fractions, Constants DEF InBand
  <2> QED BY <2>1, <2>2, <2>3
<1> HIDE DEF pulled
<1>3. pulled + WrapOf(pulled) \in Int /\ InBand(pulled + WrapOf(pulled), 0)
  BY <1>2, Fractions, Constants DEF InBand, WrapOf
<1> QED BY <1>2, <1>3 DEF pulled

LEMMA EaseBounded ==
    ASSUME NEW ease \in -Comb .. Comb, NEW wrap \in Int, NEW resumed \in BOOLEAN,
           NEW shownOnComb \in BOOLEAN
    PROVE  EaseAfter(ease, wrap, resumed, shownOnComb) \in -Comb .. Comb
<1> DEFINE step == Comb \div EasePresents
           decayed == IF ease > step THEN ease - step ELSE IF ease < -step THEN ease + step ELSE 0
<1>1. CASE EasePresents <= 1
  BY <1>1, Constants DEF EaseAfter
<1>2. CASE ~(EasePresents <= 1)
  <2>1. step \in Int
    BY <1>2, Constants
  <2>2. decayed - wrap \in Int
    BY <2>1, Constants
  <2>3. Clamp(decayed - wrap, Comb) \in -Comb .. Comb
    BY <2>2, Constants, Clamped
  <2>4. 0 \in -Comb .. Comb
    BY Constants
  <2> HIDE DEF step, decayed
  <2>5. EaseAfter(ease, wrap, resumed, shownOnComb) \in {0, Clamp(decayed - wrap, Comb)}
    BY DEF EaseAfter, step, decayed
  <2> QED BY <2>3, <2>4, <2>5
<1> QED BY <1>1, <1>2

\* After a complete bracket the lock's pull is back in the band.
LEMMA UpdateKeeps ==
    ASSUME NEW s \in LockState, NEW b, b.before \in Int, NEW resumed \in BOOLEAN,
           InBand(s.pull, Half)
    PROVE  LET u == UpdatePhaseLock(s, b, resumed)
           IN u \in LockState /\ InBand(u.pull, 0) /\ u.stallRun \in 0 .. StallRunPresents
<1> DEFINE m == Measured(s, b, resumed)
           onComb == Magnitude(WrapHalf(b.before)) < Passthrough \/ b.after < Passthrough
           pulled == m.pull + PullDelta(m, resumed)
           wrap == WrapOf(pulled)
<1>1. m \in LockState /\ m.pull = s.pull
  <2>1. WrapHalf(b.before + s.ease) \in Near
    <3>1. b.before + s.ease \in Int
      BY Constants DEF LockState
    <3> QED BY <3>1, Wrapped
  <2> DEFINE e == WrapHalf(b.before + s.ease)
             n == Measure(s, e, resumed)
  <2> HIDE DEF e
  <2>2. n \in LockState /\ n.pull = s.pull
    BY <2>1, MeasureKeeps DEF e
  <2> HIDE DEF n
  <2>3. s.seeded \in BOOLEAN /\ s.engaged \in BOOLEAN
    BY DEF LockState
  <2> DEFINE c == ConfirmReengage(n, s.seeded, s.engaged)
  <2>4. c \in LockState /\ c.pull = n.pull
    BY <2>2, <2>3, ConfirmKeeps
  <2>5. m = c
    BY DEF Measured, n, e
  <2> HIDE DEF c
  <2> HIDE DEF m
  <2> QED BY <2>2, <2>4, <2>5
<1> HIDE DEF m
<1>2. pulled \in Int /\ pulled + wrap \in Int /\ InBand(pulled + wrap, 0)
  BY <1>1, PullReturns
<1>3. wrap \in Int
  BY Constants DEF WrapOf
<1> HIDE DEF pulled, wrap
<1>4. EaseAfter(m.ease, wrap, resumed, onComb) \in -Comb .. Comb
  <2>1. m.ease \in -Comb .. Comb /\ onComb \in BOOLEAN
    BY <1>1 DEF LockState
  <2> QED BY <1>3, <2>1, EaseBounded
<1> DEFINE e == EaseAfter(m.ease, wrap, resumed, onComb)
           r == IF m.recoverRun > 0 THEN m.recoverRun - 1 ELSE 0
<1>5. UpdatePhaseLock(s, b, resumed) =
          [m EXCEPT !.recoverRun = r, !.pull = pulled + wrap, !.ease = e]
  BY DEF UpdatePhaseLock, m, pulled, wrap
<1>6. r \in 0 .. RecoverPresents
  BY <1>1 DEF LockState, RecoverPresents
<1> HIDE DEF e, r
<1> QED BY <1>1, <1>2, <1>4, <1>5, <1>6 DEF LockState, e

-----------------------------------------------------------------------------
\* What the ring shows the lock.

\* The frames newer than a target are counted.
LEMMA Counted ==
    ASSUME ages \in Seq(Int), NEW t
    PROVE  NewerThan(t) \in 0 .. Len(ages) /\ Len(ages) \in Nat
<1>1. Len(ages) \in Nat /\ DOMAIN ages = 1 .. Len(ages)
  BY LenProperties
<1>2. IsFiniteSet(1 .. Len(ages)) /\ Cardinality(1 .. Len(ages)) = Len(ages)
  <2>1. ASSUME NEW k \in Nat
        PROVE  IsFiniteSet(1 .. k) /\ Cardinality(1 .. k) = k
    <3>1. IsFiniteSet(1 .. k) /\ Cardinality(1 .. k) = IF 1 > k THEN 0 ELSE k - 1 + 1
      BY FS_Interval
    <3> QED BY <3>1
  <2> QED BY <1>1, <2>1
<1> DEFINE newer == {i \in 1 .. Len(ages) : ages[i] < t}
<1>3. Cardinality(newer) \in Nat /\ Cardinality(newer) <= Len(ages)
  BY <1>1, <1>2, FS_Subset, FS_CardinalityType
<1>4. NewerThan(t) = Cardinality(newer)
  BY <1>1 DEF NewerThan
<1> HIDE DEF newer
<1> QED BY <1>1, <1>3, <1>4

\* A plan moves the pull by half a comb at the most, and the error estimate wraps.
LEMMA RephasedKeeps ==
    ASSUME LoopInv
    PROVE  /\ Rephased \in LockState /\ Rephased.stallRun = lock.stallRun
           /\ InBand(Rephased.pull, Half)
           /\ Planned \in Int /\ Target \in Int
<1>1. /\ lock \in LockState /\ la \in Plan /\ InBand(lock.pull, IF lock.stallRun > 0 THEN Half ELSE 0)
      /\ lock.stallRun > 0 => ~la.pending
      /\ lock.stallRun \in Nat /\ lock.pull \in Int
  BY DEF LoopInv, LoopType, LockState, StallRunPresents
<1>2. Planned \in Int
  BY <1>1, Constants DEF Planned, LockState
<1>3. Rephased \in LockState /\ Rephased.stallRun = lock.stallRun /\ InBand(Rephased.pull, Half)
  <2>1. CASE ~Fires(la, Planned)
    <3>1. Rephased = lock
      BY <2>1 DEF Rephased, ApplyToLock
    <3> QED BY <1>1, <3>1, Fractions, Constants DEF InBand
  <2>2. CASE Fires(la, Planned)
    <3> DEFINE err == IF la.late THEN WrapHalf(lock.errEma - la.size) ELSE lock.errEma
               pull == lock.pull + la.size
    <3>1. la.pending /\ ~(lock.stallRun > 0) /\ la.size \in -Half .. Half
      BY <1>1, <2>2 DEF Fires, Plan, Near
    <3>2. err \in Near
      <4>1. lock.errEma - la.size \in Int /\ lock.errEma \in Near
        BY <1>1, <3>1, Fractions DEF LockState, Near
      <4> QED BY <4>1, Wrapped
    <3>3. pull \in Int /\ InBand(pull, Half)
      BY <1>1, <3>1, Fractions, Constants DEF InBand
    <3>4. Rephased = [lock EXCEPT !.pull = pull, !.errEma = err]
      BY <2>2 DEF Rephased, ApplyToLock
    <3> HIDE DEF err, pull
    <3> QED BY <1>1, <3>2, <3>3, <3>4 DEF LockState
  <2> QED BY <2>1, <2>2
<1>4. Target \in Int
  BY <1>1, <1>2, <1>3 DEF Target, LockState
<1> QED BY <1>2, <1>3, <1>4

LEMMA BracketType ==
    ASSUME LoopInv
    PROVE  Bracket.before \in Int /\ Bracket.after \in Int
<1> DEFINE t == Target
           n == NewerThan(t)
<1>1. t \in Int /\ ages \in Seq(Int)
  BY RephasedKeeps DEF LoopInv, LoopType
<1> HIDE DEF t
<1>2. n \in 0 .. Len(ages) /\ Len(ages) \in Nat
  BY <1>1, Counted
<1> HIDE DEF n
<1>3. /\ n < Len(ages) => ages[n + 1] \in Int
      /\ n > 0 => ages[n] \in Int
  <2>1. \A i \in 1 .. Len(ages) : ages[i] \in Int
    BY <1>1, ElementOfSeq
  <2>2. (n < Len(ages) => n + 1 \in 1 .. Len(ages)) /\ (n > 0 => n \in 1 .. Len(ages))
    BY <1>2
  <2> QED BY <2>1, <2>2
<1>4. /\ Bracket.before = IF n < Len(ages) THEN ages[n + 1] - t ELSE -1
      /\ Bracket.after = IF n > 0 THEN t - ages[n] ELSE -1
  BY DEF Bracket, t, n
<1> QED BY <1>1, <1>2, <1>3, <1>4

\* The lock after a present: in the band, or still as far out as it was when it stalls.
LEMMA LockedKeeps ==
    ASSUME LoopInv
    PROVE  /\ Locked \in LockState
           /\ InBand(Locked.pull, IF Locked.stallRun > 0 THEN Half ELSE 0)
<1> DEFINE b == Bracket
           s == Rephased
           resumed == Resumes(s, b)
           counted == CountStall(s, b)
           updated == IF Stalled(b) THEN counted ELSE UpdatePhaseLock(counted, b, resumed)
<1>1. s \in LockState /\ InBand(s.pull, Half) /\ b.before \in Int
  BY RephasedKeeps, BracketType
<1>2. Locked = IF resumed THEN ArmExemption(updated, MeanInterval) ELSE updated
  BY DEF Locked
<1> HIDE DEF b, s
<1>3. resumed \in BOOLEAN /\ Stalled(b) \in BOOLEAN
  BY DEF Resumes, Stalled
<1>4. /\ counted \in LockState /\ counted.pull = s.pull
      /\ Stalled(b) => counted.stallRun > 0
      /\ ~Stalled(b) => counted.stallRun = 0
  <2> DEFINE run == IF Stalled(b) THEN Smaller(s.stallRun + 1, StallRunPresents) ELSE 0
  <2>1. run \in 0 .. StallRunPresents /\ (Stalled(b) => run > 0) /\ (~Stalled(b) => run = 0)
    BY <1>1 DEF LockState, Smaller, StallRunPresents
  <2>2. counted = [s EXCEPT !.stallRun = run]
    BY DEF CountStall
  <2> HIDE DEF run, counted
  <2> QED BY <1>1, <2>1, <2>2 DEF LockState
<1> HIDE DEF counted, resumed
<1>5. /\ updated \in LockState
      /\ InBand(updated.pull, IF updated.stallRun > 0 THEN Half ELSE 0)
  <2>1. CASE Stalled(b)
    BY <1>1, <1>4, <2>1
  <2>2. CASE ~Stalled(b)
    <3> DEFINE u == UpdatePhaseLock(counted, b, resumed)
    <3>1. u \in LockState /\ InBand(u.pull, 0) /\ u.stallRun \in 0 .. StallRunPresents
      BY <1>1, <1>3, <1>4, UpdateKeeps
    <3> HIDE DEF u
    <3>2. updated = u
      BY <2>2 DEF u
    <3> QED BY <3>1, <3>2, Fractions, Constants DEF InBand, LockState
  <2> QED BY <2>1, <2>2
<1> HIDE DEF updated
<1>6. ArmExemption(updated, MeanInterval) \in {updated, [updated EXCEPT !.exemptLeft = ExemptPresents]}
  BY DEF ArmExemption
<1>7. ExemptPresents \in 0 .. ExemptPresents
  BY DEF ExemptPresents
<1>8. Locked \in {updated, [updated EXCEPT !.exemptLeft = ExemptPresents]}
  BY <1>2, <1>6
<1> QED BY <1>5, <1>7, <1>8 DEF LockState

-----------------------------------------------------------------------------
\* What the ring shows the lookahead.

LEMMA RecentType ==
    ASSUME LoopInv
    PROVE  /\ Recent.target \in Int
           /\ \E n \in Nat : Recent.ahead \in [1 .. n -> Int]
           /\ \E n \in Nat : n <= MaxAt /\ Recent.behind \in [1 .. n -> Int]
<1> DEFINE t == Target
           n == NewerThan(t)
           m == Smaller(MaxAt, Len(ages) - n)
<1>1. t \in Int /\ ages \in Seq(Int)
  BY RephasedKeeps DEF LoopInv, LoopType
<1>2. /\ Recent.target = t
      /\ Recent.ahead = [i \in 1 .. n |-> ages[i] - t]
      /\ Recent.behind = [i \in 1 .. m |-> ages[n + i] - t]
  BY DEF Recent
<1> HIDE DEF t
<1>3. n \in 0 .. Len(ages) /\ Len(ages) \in Nat
  BY <1>1, Counted
<1> HIDE DEF n
<1>4. m \in Nat /\ m <= MaxAt /\ m <= Len(ages) - n
  BY <1>3 DEF Smaller, MaxAt
<1> HIDE DEF m
<1>5. \A i \in 1 .. Len(ages) : ages[i] \in Int
  BY <1>1, ElementOfSeq
<1>6. \A i \in 1 .. n : ages[i] - t \in Int
  <2>1. \A i \in 1 .. n : i \in 1 .. Len(ages)
    BY <1>3
  <2> QED BY <1>1, <1>5, <2>1
<1>7. \A i \in 1 .. m : ages[n + i] - t \in Int
  <2>1. \A i \in 1 .. m : n + i \in 1 .. Len(ages)
    BY <1>3, <1>4
  <2> QED BY <1>1, <1>5, <2>1
<1>8. Recent.ahead \in [1 .. n -> Int] /\ Recent.behind \in [1 .. m -> Int]
  BY <1>2, <1>6, <1>7
<1>9. n \in Nat
  BY <1>3
<1> QED BY <1>1, <1>2, <1>4, <1>8, <1>9

\* What is left of a plan that is dropped.
LEMMA Dropped ==
    ASSUME NEW p \in Plan
    PROVE  NoPlan(p) \in Plan /\ NoPlan(p).late = p.late /\ ~NoPlan(p).pending
<1> DEFINE none == 0
<1>1. none \in Near /\ none \in Int
  BY Fractions DEF Near
<1>2. NoPlan(p) = [p EXCEPT !.pending = FALSE, !.size = none, !.first = none]
  BY DEF NoPlan
<1> HIDE DEF none
<1> QED BY <1>1, <1>2 DEF Plan

\* A planned move is made by a plan no longer pending.
LEMMA AppliedPlan ==
    ASSUME LoopInv
    PROVE  ApplyToLookahead(la, Planned) \in Plan /\ ~ApplyToLookahead(la, Planned).late
<1>1. la \in Plan /\ (la.late => la.pending)
  BY DEF LoopInv, LoopType
<1>3. CASE Fires(la, Planned)
  <2>1. ApplyToLookahead(la, Planned) = [NoPlan(la) EXCEPT !.late = FALSE]
    BY <1>3 DEF ApplyToLookahead
  <2>2. NoPlan(la) \in Plan
    BY <1>1, Dropped
  <2> QED BY <2>1, <2>2 DEF Plan
<1>4. CASE ~Fires(la, Planned)
  <2>1. ~la.late
    BY <1>1, <1>4 DEF Fires
  <2> QED BY <1>1, <1>4, <2>1 DEF ApplyToLookahead
<1> QED BY <1>3, <1>4

\* A plan that is made, kept or dropped keeps its bounds, whatever the ring shows.
LEMMA CompareKeeps ==
    ASSUME NEW p \in Plan, ~p.late, NEW s, NEW r, NEW newFrames \in Nat, r.target \in Int,
           NEW n \in Nat, n >= LookaheadFrames, r.ahead \in [1 .. n -> Int],
           r.behind \in [1 .. MaxAt -> Int]
    PROVE  Compare(p, s, r, newFrames) \in Plan /\
           (Compare(p, s, r, newFrames).late => Compare(p, s, r, newFrames).pending)
<1>1. Agreed(r) \in Near /\ Agreed(r) \in Int
  <2> DEFINE v == [i \in 1 .. LookaheadFrames |-> WrapHalf(r.ahead[i])]
  <2>1. \A i \in 1 .. LookaheadFrames : r.ahead[i] \in Int
    BY DEF LookaheadFrames
  <2>2. v \in [1 .. LookaheadFrames -> Near]
    BY <2>1, Wrapped
  <2>3. LookaheadFrames \in Nat \ {0}
    BY DEF LookaheadFrames
  <2>4. Agreed(r) = MedianOf(v)
    BY DEF Agreed
  <2> HIDE DEF v
  <2>5. Agreed(r) \in Near
    BY <2>2, <2>3, <2>4, Medians
  <2> QED BY <2>5, Fractions DEF Near
<1>2. Current(r) \in Int
  <2> DEFINE v == Phases(r.behind)
  <2>1. v = [i \in 1 .. MaxAt |-> WrapHalf(r.behind[i])]
    BY DEF Phases
  <2>2. v \in [1 .. MaxAt -> Near]
    BY <2>1, Wrapped
  <2>3. MaxAt \in Nat \ {0}
    BY DEF MaxAt
  <2>4. Current(r) = MedianOf(v)
    BY DEF Current
  <2> HIDE DEF v
  <2>5. Current(r) \in Near
    BY <2>2, <2>3, <2>4, Medians
  <2> QED BY <2>5, Fractions DEF Near
<1>3. WrapHalf(Agreed(r) - Current(r)) \in Near
  <2>1. Agreed(r) - Current(r) \in Int
    BY <1>1, <1>2
  <2> QED BY <2>1, Wrapped
<1>4. /\ 0 \in Near /\ p.late = FALSE /\ p.confirm + newFrames \in Nat
  BY Fractions DEF Near, Plan
<1>5. NoPlan(p) \in Plan /\ ~NoPlan(p).late
  BY Dropped
<1>6. PlanLate(p, r) \in Plan /\ PlanLate(p, r).pending
  BY <1>1 DEF PlanLate, Plan
<1>7. PlanStep(p, r) \in Plan /\ ~PlanStep(p, r).late
  <2> DEFINE step == StepFrames(r)
             j == CHOOSE k \in step : \A i \in step : i <= k
             first == r.ahead[j]
  <2>1. CASE step = {} \/ -first < LookaheadLead
    <3>1. PlanStep(p, r) = [p EXCEPT !.confirm = 0]
      BY <2>1 DEF PlanStep
    <3> QED BY <1>4, <3>1 DEF Plan
  <2>2. CASE ~(step = {} \/ -first < LookaheadLead)
    <3>1. step \subseteq 1 .. n
      BY DEF StepFrames
    <3>2. \E k \in step : \A i \in step : i <= k
      BY <2>2, <3>1, GreatestOne
    <3>3. j \in 1 .. n
      BY <3>1, <3>2
    <3>4. r.target + first \in Int
      BY <3>3
    <3> DEFINE f == r.target + first
               z == WrapHalf(Agreed(r) - Current(r))
               none == 0
    <3>5. PlanStep(p, r) = [p EXCEPT !.pending = TRUE, !.first = f, !.confirm = none, !.size = z]
      BY <2>2 DEF PlanStep
    <3>6. f \in Int /\ z \in Near /\ none \in Nat
      BY <1>3, <3>4
    <3> HIDE DEF f, z, none
    <3> QED BY <1>4, <3>5, <3>6 DEF Plan
  <2> QED BY <2>1, <2>2
<1>8. /\ [p EXCEPT !.confirm = 0] \in Plan /\ ~[p EXCEPT !.confirm = 0].late
      /\ [p EXCEPT !.confirm = p.confirm + newFrames] \in Plan
      /\ ~[p EXCEPT !.confirm = p.confirm + newFrames].late
  BY <1>4 DEF Plan
<1>9. Compare(p, s, r, newFrames) \in
          {p, NoPlan(p), [p EXCEPT !.confirm = 0], [p EXCEPT !.confirm = p.confirm + newFrames],
           PlanLate(p, r), PlanStep(p, r)}
  BY DEF Compare
<1> QED BY <1>4, <1>5, <1>6, <1>7, <1>8, <1>9

\* While the lock stalls there is no plan.
LEMMA LookaheadKeeps ==
    ASSUME NEW p \in Plan, ~p.late, NEW s \in LockState, NEW r, r.target \in Int,
           \E n \in Nat : r.ahead \in [1 .. n -> Int],
           \E n \in Nat : n <= MaxAt /\ r.behind \in [1 .. n -> Int],
           NEW resumed \in BOOLEAN
    PROVE  LET u == UpdateLookahead(p, s, r, resumed)
           IN u \in Plan /\ (u.late => u.pending) /\ (s.stallRun > 0 => ~u.pending)
<1>1. PICK n \in Nat : r.ahead \in [1 .. n -> Int]
  OBVIOUS
<1>2. PICK m \in Nat : m <= MaxAt /\ r.behind \in [1 .. m -> Int]
  OBVIOUS
<1>3. Cardinality(DOMAIN r.ahead) = n /\ Cardinality(DOMAIN r.behind) = m
  <2>1. DOMAIN r.ahead = 1 .. n /\ DOMAIN r.behind = 1 .. m
    BY <1>1, <1>2
  <2>2. Cardinality(1 .. n) = n
    BY FS_Interval
  <2>3. Cardinality(1 .. m) = m
    BY FS_Interval
  <2> QED BY <2>1, <2>2, <2>3
<1> DEFINE newFrames == Smaller(n, p.unseen)
           unseen == IF n > 0 THEN 0 ELSE p.unseen
           seen == [p EXCEPT !.unseen = unseen]
           u == UpdateLookahead(p, s, r, resumed)
<1>4. newFrames \in Nat /\ unseen \in Nat
  BY DEF Smaller, Plan
<1> HIDE DEF newFrames, unseen
<1>5. seen \in Plan /\ ~seen.late
  BY <1>4 DEF Plan
<1>6. u = IF ~s.engaged \/ s.stallRun # 0 \/ s.recoverRun # 0 \/ resumed
          THEN [NoPlan(seen) EXCEPT !.confirm = 0]
          ELSE IF n < LookaheadFrames \/ m < MaxAt THEN seen
          ELSE Compare(seen, s, r, newFrames)
  BY <1>3 DEF UpdateLookahead, newFrames, unseen
<1> HIDE DEF seen, u
<1>7. CASE ~s.engaged \/ s.stallRun # 0 \/ s.recoverRun # 0 \/ resumed
  <2>1. NoPlan(seen) \in Plan /\ ~NoPlan(seen).late /\ ~NoPlan(seen).pending
    BY <1>5, Dropped
  <2>2. u = [NoPlan(seen) EXCEPT !.confirm = 0]
    BY <1>6, <1>7
  <2>3. u \in Plan /\ ~u.late /\ ~u.pending
    BY <2>1, <2>2 DEF Plan
  <2> QED BY <2>3 DEF u
<1>8. CASE ~(~s.engaged \/ s.stallRun # 0 \/ s.recoverRun # 0 \/ resumed)
  <2>1. ~(s.stallRun > 0)
    BY <1>8
  <2>2. CASE n < LookaheadFrames \/ m < MaxAt
    <3>1. u = seen
      BY <1>6, <1>8, <2>2
    <3> QED BY <1>5, <2>1, <3>1 DEF u
  <2>3. CASE ~(n < LookaheadFrames \/ m < MaxAt)
    <3>1. n >= LookaheadFrames /\ m = MaxAt
      BY <1>2, <2>3 DEF LookaheadFrames, MaxAt
    <3>2. u = Compare(seen, s, r, newFrames)
      BY <1>6, <1>8, <2>3
    <3>3. u \in Plan /\ (u.late => u.pending)
      BY <1>1, <1>2, <1>4, <1>5, <3>1, <3>2, CompareKeeps
    <3> QED BY <2>1, <3>3 DEF u
  <2> QED BY <2>2, <2>3
<1> QED BY <1>7, <1>8

-----------------------------------------------------------------------------
\* The steps.

LEMMA SourceDrawsKeeps ==
    ASSUME LoopInv, SourceDraws
    PROVE  LoopInv'
<1>1. /\ interval \in Nat /\ ages \in Seq(Int) /\ next \in Int /\ presents \in Nat
      /\ lock \in LockState /\ la \in Plan
      /\ lock' = lock /\ interval' = interval /\ presents' = presents
  BY DEF LoopInv, LoopType, SourceDraws
<1>2. ages' \in Seq(Int)
  <2> DEFINE all == <<next>> \o ages
             k == Smaller(Len(ages) + 1, RingFrames)
  <2>1. Len(ages) \in Nat /\ <<next>> \in Seq(Int) /\ Len(<<next>>) = 1
    BY <1>1, LenProperties
  <2>2. all \in Seq(Int) /\ Len(all) = 1 + Len(ages)
    BY <1>1, <2>1, ConcatProperties
  <2>3. k \in 0 .. Len(all)
    BY <2>1, <2>2, Constants DEF Smaller
  <2> HIDE DEF all, k
  <2>4. SubSeq(all, 1, k) \in Seq(Int)
    BY <2>2, <2>3, SubSeqProperties
  <2> QED BY <2>4 DEF SourceDraws, all, k
<1>3. next' \in Int
  <2>1. next' = next - Comb \/ \E gap \in Hitches : next' = next - gap
    BY DEF SourceDraws
  <2>2. CASE next' = next - Comb
    <3>1. next - Comb \in Int
      BY <1>1, Constants
    <3> QED BY <2>2, <3>1
  <2>3. ASSUME NEW gap \in Hitches, next' = next - gap
        PROVE  next' \in Int
    <3>1. gap \in Nat
      BY Constants
    <3>2. next - gap \in Int
      BY <1>1, <3>1
    <3> QED BY <2>3, <3>2
  <2> QED BY <2>1, <2>2, <2>3
<1>4. la' \in Plan /\ la'.pending = la.pending /\ la'.late = la.late
  <2> DEFINE n == Smaller(la.unseen + 1, RingFrames)
  <2>1. n \in Nat
    BY <1>1, Constants DEF Smaller, Plan
  <2>2. la' = [la EXCEPT !.unseen = n]
    BY DEF SourceDraws
  <2> HIDE DEF n
  <2> QED BY <1>1, <2>1, <2>2 DEF Plan
<1> QED BY <1>1, <1>2, <1>3, <1>4 DEF LoopInv, LoopType

LEMMA PresentKeeps ==
    ASSUME LoopInv, Present
    PROVE  LoopInv'
<1>1. /\ interval \in Nat /\ ages \in Seq(Int) /\ next \in Int /\ presents \in Nat
      /\ interval' = interval
  BY DEF LoopInv, LoopType, Present
<1>2. ages' \in Seq(Int) /\ next' \in Int
  <2>1. Len(ages) \in Nat /\ DOMAIN ages = 1 .. Len(ages)
    BY <1>1, LenProperties
  <2>2. \A i \in 1 .. Len(ages) : ages[i] + interval \in Int
    BY <1>1, ElementOfSeq
  <2>3. ages' \in [1 .. Len(ages) -> Int]
    BY <2>1, <2>2 DEF Present, Wait
  <2>4. ages' \in Seq(Int)
    BY <2>1, <2>3, SeqDef
  <2> QED BY <1>1, <2>4 DEF Present, Wait
<1>3. presents' \in Nat
  BY <1>1 DEF Present, Smaller, PresentMeanSpan
<1> DEFINE locked == Locked
           applied == ApplyToLookahead(la, Planned)
           new == UpdateLookahead(applied, locked, Recent, Resumed)
<1>4. locked \in LockState /\ InBand(locked.pull, IF locked.stallRun > 0 THEN Half ELSE 0)
  BY LockedKeeps
<1>5. new \in Plan /\ (new.late => new.pending) /\ (locked.stallRun > 0 => ~new.pending)
  <2>1. applied \in Plan /\ ~applied.late
    BY AppliedPlan
  <2>2. Resumed \in BOOLEAN
    BY DEF Resumed, Resumes
  <2>3. /\ Recent.target \in Int
        /\ \E n \in Nat : Recent.ahead \in [1 .. n -> Int]
        /\ \E n \in Nat : n <= MaxAt /\ Recent.behind \in [1 .. n -> Int]
    BY RecentType
  <2> DEFINE r == Recent
  <2> HIDE DEF applied, locked, r
  <2>4. /\ r.target \in Int
        /\ \E n \in Nat : r.ahead \in [1 .. n -> Int]
        /\ \E n \in Nat : n <= MaxAt /\ r.behind \in [1 .. n -> Int]
    BY <2>3 DEF r
  <2>5. LET u == UpdateLookahead(applied, locked, r, Resumed)
        IN u \in Plan /\ (u.late => u.pending) /\ (locked.stallRun > 0 => ~u.pending)
    BY <1>4, <2>1, <2>2, <2>4, LookaheadKeeps
  <2> QED BY <2>5 DEF r
<1> DEFINE first == IF new.pending /\ ~new.late THEN new.first + interval ELSE 0
           left == IF locked.exemptLeft > 0 THEN locked.exemptLeft - 1 ELSE 0
<1>6. lock' = [locked EXCEPT !.exemptLeft = left] /\ la' = [new EXCEPT !.first = first]
  BY DEF Present, ConsumeExemption
<1> HIDE DEF locked, new
<1>7. first \in Int /\ left \in 0 .. ExemptPresents
  BY <1>1, <1>4, <1>5 DEF Plan, LockState, ExemptPresents
<1> HIDE DEF first, left
<1>8. /\ lock' \in LockState /\ lock'.pull = locked.pull /\ lock'.stallRun = locked.stallRun
      /\ la' \in Plan /\ la'.late = new.late /\ la'.pending = new.pending
  BY <1>4, <1>5, <1>6, <1>7 DEF LockState, Plan
<1> QED BY <1>1, <1>2, <1>3, <1>4, <1>5, <1>8 DEF LoopInv, LoopType

-----------------------------------------------------------------------------
\* The theorems.

\* Whatever the source and the clock do, the lock and the plan keep the bounds they began in, a
\* stalled lock has no plan, and a plan for the next present is a plan.
THEOREM LoopInvariant == Spec => []LoopInv
<1>1. Init => LoopInv
  <2> SUFFICES ASSUME Init PROVE LoopInv
    OBVIOUS
  <2>1. interval \in Nat /\ ages \in Seq(Int) /\ next \in Int /\ presents \in Nat
    BY Constants, EmptySeq DEF Init
  <2>2. lock \in LockState /\ lock.pull = 0 /\ lock.stallRun = 0
    BY Constants, Fractions DEF Init, FirstLock, LockState, Near, StallRunPresents,
       RecoverPresents, EngageConfirmPresents, ExemptPresents
  <2>3. la \in Plan /\ ~la.late
    BY Fractions DEF Init, FirstLookahead, Plan, Near
  <2>4. InBand(0, 0)
    BY Constants, Fractions DEF InBand
  <2> QED BY <2>1, <2>2, <2>3, <2>4 DEF LoopInv, LoopType
<1>2. LoopInv /\ [Next]_vars => LoopInv'
  <2> SUFFICES ASSUME LoopInv, [Next]_vars PROVE LoopInv'
    OBVIOUS
  <2>1. CASE SourceDraws
    BY <2>1, SourceDrawsKeeps
  <2>2. CASE Present
    BY <2>2, PresentKeeps
  <2>3. CASE UNCHANGED vars
    BY <2>3 DEF vars, LoopInv, LoopType
  <2> QED BY <2>1, <2>2, <2>3 DEF Next
<1> QED BY <1>1, <1>2, PTL DEF Spec

\* The pull stays in its band around one comb, whatever snaps, slews, wraps and planned moves
\* made it, and no farther out than half a comb while a stall holds up the step that brings it
\* back; the easing stays under a comb, and the estimates and runs in theirs.
THEOREM LockInBand == Spec => []LockInv
<1>1. LoopInv => LockInv
  <2> SUFFICES ASSUME LoopInv PROVE LockInv
    OBVIOUS
  <2>1. /\ lock \in LockState /\ la \in Plan /\ (la.late => la.pending)
        /\ InBand(lock.pull, IF lock.stallRun > 0 THEN Half ELSE 0)
    BY DEF LoopInv, LoopType
  <2>2. /\ Magnitude(lock.errEma) <= Half /\ Magnitude(la.size) <= Half
        /\ Magnitude(lock.ease) <= Comb
    BY <2>1, Constants, Fractions DEF LockState, Plan, Near, Magnitude
  <2>3. /\ lock.pull >= -PullWrapBelow - (IF lock.stallRun > 0 THEN Half ELSE 0)
        /\ lock.pull < Comb + PullWrapAbove + (IF lock.stallRun > 0 THEN Half ELSE 0)
    BY <2>1, Constants, Fractions DEF InBand, LockState
  <2> QED BY <2>1, <2>2, <2>3 DEF LockInv, LockState, Half
<1> QED BY <1>1, LoopInvariant, PTL

-----------------------------------------------------------------------------
\* How far the target moves.

\* Without easing there is none to take back.
Eased == EasePresents <= 1 \/ Passthrough = 0 => lock.ease = 0

\* A measurement moves neither the pull nor the easing.
LEMMA MeasuredKeeps ==
    ASSUME NEW s \in LockState, NEW b, b.before \in Int, NEW resumed \in BOOLEAN
    PROVE  /\ Measured(s, b, resumed) \in LockState
           /\ Measured(s, b, resumed).pull = s.pull /\ Measured(s, b, resumed).ease = s.ease
<1> DEFINE e == WrapHalf(b.before + s.ease)
           n == Measure(s, e, resumed)
           c == ConfirmReengage(n, s.seeded, s.engaged)
<1>1. e \in Near
  <2>1. b.before + s.ease \in Int
    BY Constants DEF LockState
  <2> QED BY <2>1, Wrapped
<1> HIDE DEF e
<1>2. n \in LockState /\ n.pull = s.pull /\ n.ease = s.ease
  BY <1>1, MeasureKeeps
<1> HIDE DEF n
<1>3. s.seeded \in BOOLEAN /\ s.engaged \in BOOLEAN
  BY DEF LockState
<1>4. c \in LockState /\ c.pull = n.pull /\ c.ease = n.ease
  BY <1>2, <1>3, ConfirmKeeps
<1>5. Measured(s, b, resumed) = c
  BY DEF Measured, c, n, e
<1> HIDE DEF c
<1> QED BY <1>2, <1>4, <1>5

\* A step of the lock is a slew, maybe a wrap, and what the easing makes of the wrap.
LEMMA UpdateMoves ==
    ASSUME NEW s \in LockState, NEW b, b.before \in Int
    PROVE  \E d \in Int, wrap \in {-Comb, 0, Comb}, on \in BOOLEAN :
              /\ SteadySlew <= RecoverSlew => d \in -RecoverSlew .. RecoverSlew
              /\ UpdatePhaseLock(s, b, FALSE).pull = s.pull + d + wrap
              /\ UpdatePhaseLock(s, b, FALSE).ease = EaseAfter(s.ease, wrap, FALSE, on)
<1> DEFINE m == Measured(s, b, FALSE)
           onComb == Magnitude(WrapHalf(b.before)) < Passthrough \/ b.after < Passthrough
           d == PullDelta(m, FALSE)
           pulled == m.pull + d
           wrap == WrapOf(pulled)
           slew == IF m.recoverRun > 0 THEN RecoverSlew ELSE SteadySlew
<1>1. m \in LockState /\ m.pull = s.pull /\ m.ease = s.ease
  BY MeasuredKeeps
<1> HIDE DEF m
<1>2. m.pull \in Int /\ m.errEma \in Int /\ slew \in Nat
  BY <1>1, Constants, Fractions DEF LockState, Near
<1> DEFINE want == IF m.engaged THEN m.pull + m.errEma ELSE 0
<1>3. d = Clamp(want - m.pull, slew) /\ want - m.pull \in Int
  BY <1>2 DEF PullDelta
<1>4. d \in Int /\ (SteadySlew <= RecoverSlew => d \in -RecoverSlew .. RecoverSlew)
  <2> HIDE DEF want
  <2> DEFINE x == want - m.pull
  <2>1. x \in Int /\ d = Clamp(x, slew)
    BY <1>3
  <2> HIDE DEF x, d
  <2>2. d \in -slew .. slew
    BY <1>2, <2>1, Clamped
  <2>3. slew = RecoverSlew \/ slew = SteadySlew
    OBVIOUS
  <2> HIDE DEF slew
  <2> QED BY <1>2, <2>2, <2>3, Constants, Fractions
<1> HIDE DEF want, slew, d
<1>5. wrap \in {-Comb, 0, Comb}
  BY DEF WrapOf
<1> HIDE DEF wrap
<1> DEFINE e == EaseAfter(m.ease, wrap, FALSE, onComb)
           r == IF m.recoverRun > 0 THEN m.recoverRun - 1 ELSE 0
           u == UpdatePhaseLock(s, b, FALSE)
           to == pulled + wrap
<1>6. u = [m EXCEPT !.recoverRun = r, !.pull = to, !.ease = e]
  BY DEF UpdatePhaseLock, m, d, wrap
<1> HIDE DEF e, r, u, to
<1>7. u.pull = to /\ u.ease = e
  BY <1>1, <1>6 DEF LockState
<1>8. u.pull = s.pull + d + wrap /\ u.ease = EaseAfter(s.ease, wrap, FALSE, onComb)
  BY <1>1, <1>7 DEF to, e
<1>9. onComb \in BOOLEAN
  OBVIOUS
<1> HIDE DEF onComb
<1> QED BY <1>4, <1>5, <1>8, <1>9 DEF u

\* Unless a wrap is not eased at all, the easing takes it back and adds one step to what it was.
LEMMA EaseMoves ==
    ASSUME NEW e \in -Comb .. Comb, NEW wrap \in {-Comb, 0, Comb}, NEW on \in BOOLEAN,
           EasePresents # 0, EasePresents <= 1 \/ Passthrough = 0 => e = 0,
           ~(wrap > 0 /\ e < 0), ~(wrap < 0 /\ e > 0),
           NEW x \in Int
    PROVE  x = EaseAfter(e, wrap, FALSE, on) =>
              \/ wrap # 0 /\ x = 0
              \/ x + wrap - e \in -(Comb \div EasePresents) .. Comb \div EasePresents
<1> DEFINE step == Comb \div EasePresents
           decayed == IF e > step THEN e - step ELSE IF e < -step THEN e + step ELSE 0
<1>1. step \in Nat /\ e \in Int /\ wrap \in Int /\ Comb \in Nat /\ Passthrough \in Nat
  BY Constants
<1>2. x = EaseAfter(e, wrap, FALSE, on) =>
         \/ (EasePresents <= 1 \/ Passthrough = 0) /\ x = 0
         \/ wrap # 0 /\ x = 0
         \/ x = Clamp(decayed - wrap, Comb)
  BY <1>1 DEF EaseAfter
<1> HIDE DEF step
<1>3. CASE (EasePresents <= 1 \/ Passthrough = 0) /\ x = 0
  <2> HIDE DEF decayed
  <2>1. wrap = 0 => x + wrap - e \in -step .. step
    BY <1>1, <1>3
  <2> QED BY <1>3, <2>1 DEF step
<1>4. CASE x = Clamp(decayed - wrap, Comb)
  <2>1. decayed - wrap \in -Comb .. Comb
    BY <1>1
  <2>2. decayed \in Int /\ decayed - e \in -step .. step
    BY <1>1
  <2> HIDE DEF decayed
  <2>3. x = decayed - wrap
    BY <1>1, <1>4, <2>1, <2>2 DEF Clamp
  <2>4. x + wrap - e = decayed - e
    BY <1>1, <2>2, <2>3
  <2> QED BY <2>2, <2>4 DEF step
<1> HIDE DEF decayed
<1> QED BY <1>2, <1>3, <1>4

\* Without easing a step of the lock eases nothing.
LEMMA NoEase ==
    ASSUME NEW s \in LockState, NEW b, b.before \in Int, NEW resumed \in BOOLEAN,
           EasePresents <= 1 \/ Passthrough = 0
    PROVE  UpdatePhaseLock(s, b, resumed).ease = 0
<1> DEFINE m == Measured(s, b, resumed)
           onComb == Magnitude(WrapHalf(b.before)) < Passthrough \/ b.after < Passthrough
           pulled == m.pull + PullDelta(m, resumed)
           wrap == WrapOf(pulled)
           e == EaseAfter(m.ease, wrap, resumed, onComb)
           r == IF m.recoverRun > 0 THEN m.recoverRun - 1 ELSE 0
<1>1. e = 0
  BY Constants DEF EaseAfter
<1>2. UpdatePhaseLock(s, b, resumed) = [m EXCEPT !.recoverRun = r, !.pull = pulled + wrap, !.ease = e]
  BY DEF UpdatePhaseLock
<1>3. m \in LockState
  BY MeasuredKeeps
<1> HIDE DEF m, pulled, wrap, e, r
<1> QED BY <1>1, <1>2, <1>3 DEF LockState

LEMMA EasedKeeps ==
    ASSUME LoopInv, Eased, Present
    PROVE  Eased'
<1> SUFFICES ASSUME EasePresents <= 1 \/ Passthrough = 0 PROVE lock'.ease = 0
  BY DEF Eased
<1> DEFINE b == Bracket
           s == Rephased
           resumed == Resumes(s, b)
           run == IF Stalled(b) THEN Smaller(s.stallRun + 1, StallRunPresents) ELSE 0
           counted == CountStall(s, b)
           updated == IF Stalled(b) THEN counted ELSE UpdatePhaseLock(counted, b, resumed)
           locked == Locked
           left == IF locked.exemptLeft > 0 THEN locked.exemptLeft - 1 ELSE 0
<1>1. /\ lock \in LockState /\ lock.ease = 0 /\ s \in LockState /\ b.before \in Int
      /\ resumed \in BOOLEAN
  BY RephasedKeeps, BracketType DEF LoopInv, LoopType, Eased, Resumes
<1>2. s.ease = 0
  <2>1. s = lock \/ \E p, e : s = [lock EXCEPT !.pull = p, !.errEma = e]
    BY DEF Rephased, ApplyToLock
  <2> HIDE DEF s
  <2> QED BY <1>1, <2>1 DEF LockState
<1>3. locked = IF resumed THEN ArmExemption(updated, MeanInterval) ELSE updated
  BY DEF Locked
<1>4. locked \in LockState /\ lock' = [locked EXCEPT !.exemptLeft = left]
  BY LockedKeeps DEF Present, ConsumeExemption
<1> HIDE DEF b, s, resumed
<1>5. counted \in LockState /\ counted.ease = 0
  <2>1. run \in 0 .. StallRunPresents
    BY <1>1 DEF LockState, Smaller, StallRunPresents
  <2>2. counted = [s EXCEPT !.stallRun = run]
    BY DEF CountStall
  <2> HIDE DEF run, counted
  <2> QED BY <1>1, <1>2, <2>1, <2>2 DEF LockState
<1> HIDE DEF counted
<1>6. updated.ease = 0
  BY <1>1, <1>5, NoEase
<1> HIDE DEF updated, locked
<1>7. locked.ease = 0
  BY <1>3, <1>6 DEF ArmExemption
<1> HIDE DEF left
<1> QED BY <1>4, <1>7 DEF LockState

\* The lock after a present whose target no resume and no plan moves.
LEMMA SteadyLock ==
    ASSUME LoopInv, Present, ~Resumed, ~Fires(la, Planned)
    PROVE  \/ lock'.pull = lock.pull /\ lock'.ease = lock.ease
           \/ \E d \in Int, wrap \in {-Comb, 0, Comb}, on \in BOOLEAN :
                 /\ SteadySlew <= RecoverSlew => d \in -RecoverSlew .. RecoverSlew
                 /\ lock'.pull = lock.pull + d + wrap
                 /\ lock'.ease = EaseAfter(lock.ease, wrap, FALSE, on)
<1> DEFINE b == Bracket
           run == IF Stalled(b) THEN Smaller(lock.stallRun + 1, StallRunPresents) ELSE 0
           counted == CountStall(lock, b)
           u == UpdatePhaseLock(counted, b, FALSE)
           locked == Locked
           left == IF locked.exemptLeft > 0 THEN locked.exemptLeft - 1 ELSE 0
<1>1. lock \in LockState /\ b.before \in Int /\ Rephased = lock /\ ~Resumes(lock, b)
  BY BracketType DEF LoopInv, LoopType, Rephased, ApplyToLock, Resumed
<1>2. locked = IF Stalled(b) THEN counted ELSE u
  BY <1>1 DEF Locked, Resumes, Stalled
<1> HIDE DEF b
<1>3. counted \in LockState /\ counted.pull = lock.pull /\ counted.ease = lock.ease
  <2>1. run \in 0 .. StallRunPresents
    BY <1>1 DEF LockState, Smaller, StallRunPresents
  <2>2. counted = [lock EXCEPT !.stallRun = run]
    BY DEF CountStall
  <2> HIDE DEF run, counted
  <2> QED BY <1>1, <2>1, <2>2 DEF LockState
<1>4. lock' = [locked EXCEPT !.exemptLeft = left] /\ locked \in LockState
  BY LockedKeeps DEF Present, ConsumeExemption
<1> HIDE DEF locked, left, counted
<1>5. lock'.pull = locked.pull /\ lock'.ease = locked.ease
  BY <1>4 DEF LockState
<1>6. CASE Stalled(b)
  BY <1>2, <1>3, <1>5, <1>6
<1>7. CASE ~Stalled(b)
  <2>1. PICK d \in Int, wrap \in {-Comb, 0, Comb}, on \in BOOLEAN :
           /\ SteadySlew <= RecoverSlew => d \in -RecoverSlew .. RecoverSlew
           /\ u.pull = counted.pull + d + wrap
           /\ u.ease = EaseAfter(counted.ease, wrap, FALSE, on)
    BY <1>1, <1>3, UpdateMoves
  <2> HIDE DEF u
  <2>2. lock'.pull = lock.pull + d + wrap /\ lock'.ease = EaseAfter(lock.ease, wrap, FALSE, on)
    BY <1>2, <1>3, <1>5, <1>7, <2>1
  <2> QED BY <2>1, <2>2
<1> QED BY <1>6, <1>7

\* A present whose target no resume and no plan moves.
LEMMA SteadyMoves ==
    ASSUME LoopInv, Eased, Present, ~Resumed, ~Fires(la, Planned), ~WrapsAgain,
           SteadySlew <= RecoverSlew, EasePresents # 0
    PROVE  Jumps \/ Magnitude(LockStep' - LockStep) <= RecoverSlew + (Comb \div EasePresents)
<1> DEFINE step == Comb \div EasePresents
           p == lock.pull
           e == lock.ease
           x == lock'.ease
<1>1. /\ lock \in LockState /\ Rephased = lock /\ p \in Int /\ e \in -Comb .. Comb
      /\ step \in Nat /\ RecoverSlew \in Nat /\ Comb \in Nat
      /\ Half \in Nat /\ Comb >= 32 /\ Comb <= 2 * Half + 1
      /\ lock'.pull \in Int /\ x \in Int
  <2>1. lock \in LockState /\ lock' \in LockState
    BY PresentKeeps DEF LoopInv, LoopType
  <2>2. p \in Int /\ e \in -Comb .. Comb
    BY <2>1 DEF LockState
  <2>3. lock'.pull \in Int /\ lock'.ease \in -Comb .. Comb /\ -Comb .. Comb \subseteq Int
    <3> DEFINE after == lock'
    <3>1. after \in LockState
      BY <2>1
    <3> HIDE DEF after
    <3>2. after.pull \in Int /\ after.ease \in -Comb .. Comb
      BY <3>1 DEF LockState
    <3> QED BY <3>2, Constants DEF after
  <2>4. step \in Nat
    BY Constants
  <2>5. Rephased = lock
    BY DEF Rephased, ApplyToLock
  <2> QED BY <2>1, <2>2, <2>3, <2>4, <2>5, Constants, Fractions
<1>2. /\ LockStep = p + e /\ LockStep' = lock'.pull + x
      /\ Jumps <=> Magnitude(lock'.pull - p) > Half /\ x = 0
  BY <1>1 DEF LockStep, Jumps, Half
<1>3. CASE lock'.pull = p /\ x = e
  <2>1. LockStep' - LockStep = 0
    BY <1>1, <1>2, <1>3
  <2> HIDE DEF step
  <2> QED BY <1>1, <2>1 DEF Magnitude, step
<1>4. ASSUME NEW d \in Int, NEW wrap \in {-Comb, 0, Comb}, NEW on \in BOOLEAN,
             d \in -RecoverSlew .. RecoverSlew, lock'.pull = p + d + wrap,
             x = EaseAfter(e, wrap, FALSE, on)
      PROVE  Jumps \/ Magnitude(LockStep' - LockStep) <= RecoverSlew + step
  <2>1. RecoverSlew <= Half - 1 /\ RecoverSlew < Comb - Half
    BY <1>1 DEF RecoverSlew, Half
  <2>2. wrap \in Int /\ lock'.pull \in Int /\ lock'.pull - p = d + wrap
    BY <1>1, <1>4
  <2>3. wrap # 0 => Magnitude(lock'.pull - p) > Half
    BY <1>1, <1>4, <2>1, <2>2 DEF Magnitude
  <2>4. wrap > 0 => lock'.pull > p
    BY <1>1, <1>4, <2>1, <2>2
  <2>5. wrap < 0 => ~(lock'.pull > p)
    BY <1>1, <1>4, <2>1, <2>2
  <2>6. ~(wrap > 0 /\ e < 0) /\ ~(wrap < 0 /\ e > 0)
    <3>1. wrap # 0 => e = 0 \/ ~(e < 0 <=> lock'.pull > p)
      BY <2>3 DEF WrapsAgain, Half
    <3> QED BY <1>1, <2>2, <2>4, <2>5, <3>1
  <2>7. \/ wrap # 0 /\ x = 0
        \/ x + wrap - e \in -step .. step
    <3>1. EasePresents <= 1 \/ Passthrough = 0 => e = 0
      BY DEF Eased
    <3> HIDE DEF x, e
    <3>2. e \in -Comb .. Comb
      BY <1>1
    <3>3. x \in Int
      BY <1>1
    <3> QED BY <1>4, <2>6, <3>1, <3>2, <3>3, EaseMoves
  <2> HIDE DEF x, e, p, step
  <2>8. CASE wrap # 0 /\ x = 0
    BY <1>2, <2>3, <2>8
  <2>9. CASE x + wrap - e \in -step .. step
    <3> DEFINE z == x + wrap - e
    <3>0. /\ x \in Int /\ wrap \in Int /\ e \in Int /\ p \in Int /\ d \in Int
          /\ step \in Nat /\ RecoverSlew \in Nat
      BY <1>1, <2>2
    <3>1. LockStep' - LockStep = d + z
      <4>1. LockStep = p + e /\ LockStep' = (p + d + wrap) + x
        BY <1>2, <1>4, Zenon
      <4>2. ASSUME NEW from, NEW to, from = p + e, to = (p + d + wrap) + x
            PROVE  to - from = d + z
        BY <3>0, <4>2
      <4> HIDE DEF z
      <4> QED BY <4>1, <4>2
    <3>2. d + z \in -(RecoverSlew + step) .. RecoverSlew + step
      <4>1. z \in -step .. step /\ d \in -RecoverSlew .. RecoverSlew
        BY <1>4, <2>9
      <4> HIDE DEF z
      <4> QED BY <3>0, <4>1
    <3>3. \A m \in Nat : \A c \in -m .. m : Magnitude(c) <= m
      BY DEF Magnitude
    <3>4. RecoverSlew + step \in Nat
      BY <1>1
    <3> QED BY <3>1, <3>2, <3>3, <3>4
  <2> QED BY <2>7, <2>8, <2>9
<1> QED BY <1>3, <1>4, SteadyLock

\* From one present to the next the lock moves the target by the slew and one step of an easing at
\* the most, except on a resume, a planned move, or a wrap made between frames, as long as no wrap
\* is followed by another the same way before its easing is over.
THEOREM SmoothMoves ==
    ASSUME SteadySlew <= RecoverSlew, EasePresents # 0
    PROVE  Spec /\ OneWrapAtATime => SmoothTarget
<1>1. Init => Eased
  BY DEF Init, FirstLock, Eased
<1>2. LoopInv /\ Eased /\ [Next]_vars => Eased'
  <2> SUFFICES ASSUME LoopInv, Eased, [Next]_vars PROVE Eased'
    OBVIOUS
  <2>1. CASE Present
    BY <2>1, EasedKeeps
  <2>2. CASE SourceDraws \/ UNCHANGED vars
    BY <2>2 DEF SourceDraws, vars, Eased
  <2> QED BY <2>1, <2>2 DEF Next
<1> DEFINE Smooth == Present => \/ Resumed \/ Fires(la, Planned) \/ Jumps
                                \/ Magnitude(LockStep' - LockStep)
                                      <= RecoverSlew + (Comb \div EasePresents)
<1>3. LoopInv /\ Eased /\ [Next]_vars /\ [~WrapsAgain]_vars => [Smooth]_vars
  <2> SUFFICES ASSUME LoopInv, Eased, ~WrapsAgain, Present, ~Resumed, ~Fires(la, Planned)
               PROVE  \/ Jumps
                      \/ Magnitude(LockStep' - LockStep) <= RecoverSlew + (Comb \div EasePresents)
    OBVIOUS
  <2> QED BY SteadyMoves
<1>4. (SmoothTarget <=> [][Smooth]_vars) /\ (OneWrapAtATime <=> [][~WrapsAgain]_vars)
  BY DEF SmoothTarget, OneWrapAtATime
<1> HIDE DEF Smooth
<1> QED BY <1>1, <1>2, <1>3, <1>4, LoopInvariant, PTL DEF Spec
=============================================================================
