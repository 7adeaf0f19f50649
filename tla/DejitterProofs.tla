---------------------------- MODULE DejitterProofs ----------------------------
(***************************************************************************)
(* Proofs of FenceHolds and FictionEnds, for every history of batches,     *)
(* every set of flips known of it, every target and every size of history  *)
(* and overlay that the assumptions of Dejitter allow: the walk of one     *)
(* present, whatever its chain measures, never moves a frame across a      *)
(* target consumed before, and never corrects three batches in a row.      *)
(***************************************************************************)
EXTENDS Dejitter, FiniteSetTheorems, SequenceTheorems, WellFoundedInduction, TLAPS

Batch == [start : Int, own : Int]
Mark == [key : Int, late : Nat]

Chain == [anchor : Int, anchorBatch : Int, seen : Int, any : BOOLEAN,
          valid : BOOLEAN, warmup : Nat, lateRun : Nat, gaps : Seq(Int)]

Fit == [paired : BOOLEAN, ahead : BOOLEAN, offset : Int, warm : BOOLEAN]

HistoryInv ==
    /\ stride \in Nat \ {0}
    /\ batches \in Seq(Batch) /\ Len(batches) <= History
    /\ \A i, j \in 1 .. Len(batches) : i < j => batches[j].start < batches[i].start
    /\ flips \subseteq Floor .. Period /\ due \in Floor .. Period
    /\ behind \in Nat /\ fresh \in Nat /\ chain \in Chain
    /\ behind <= Len(batches) \/ Len(batches) = History
    /\ consumed \in Int /\ Floor <= consumed

\* A key is the start of a batch in the history, or of one that has left it.
Known(key) ==
    /\ batches # <<>>
    /\ \/ \E k \in 1 .. Len(batches) : key = batches[k].start
       \/ \A k \in 1 .. Len(batches) : key < batches[k].start

\* The overlay lists batches from the oldest on, none of the newest n, which are still to walk.
Ordered(over, n) ==
    /\ over \in Seq(Mark) /\ Len(over) <= Entries
    /\ \A i \in 1 .. Len(over) : Floor <= over[i].key
    /\ \A i, j \in 1 .. Len(over) : i < j => over[i].key < over[j].key \/ over[i].key = Floor
    /\ \A i \in 1 .. Len(over) :
          over[i].key # Floor =>
              Known(over[i].key) /\ \A k \in 1 .. Len(batches) : k <= n => over[i].key < batches[k].start

\* A batch still in the window the walk looks at, with a correction.
LateAt(over, i) ==
    /\ i \in 1 .. Len(batches) /\ batches[i].start > Floor
    /\ Correction(over, batches[i].start) # 0

\* No three batches in a row are corrected, and the chain knows of those walked last that were.
Runs(over, c, n) ==
    /\ \A i \in 1 .. Len(batches) :
          i > n => ~(LateAt(over, i) /\ LateAt(over, i + 1) /\ LateAt(over, i + 2))
    /\ c.valid /\ LateAt(over, n + 1) =>
          c.lateRun >= 1 /\ (LateAt(over, n + 2) => c.lateRun >= 2)

FenceInv == HistoryInv /\ Ordered(overlay, behind) /\ Runs(overlay, chain, behind)

-----------------------------------------------------------------------------
(* Numbers.                                                                *)

LEMMA Constants ==
    /\ Step \in Nat \ {0} /\ History \in Nat \ {0} /\ Margin \in Nat \ {0} /\ Entries \in Nat \ {0}
    /\ RingBatches \in Nat \ {0} /\ Window \in Nat \ {0} /\ Warmup \in Nat
    /\ Strides \subseteq Nat \ {0} /\ Gaps \subseteq Nat \ {0}
    /\ Latenesses \subseteq Int /\ Targets \subseteq Int
    /\ Margin < History /\ 2 * Margin <= History + 1 /\ RingBatches <= Entries
BY DejitterAssumption

\* A set of numbers has a least one.
LEMMA LeastOne ==
    ASSUME NEW S, S \subseteq Nat, S # {}
    PROVE  \E u \in S : \A v \in S : u <= v
<1> DEFINE R == {p \in Nat \X Nat : p[1] < p[2]}
<1>1. IsWellFoundedOn(R, Nat)
  BY NatLessThanWellFounded, Zenon DEF OpToRel
<1> HIDE DEF R
<1>2. PICK x \in S : \A y \in S : <<y, x>> \notin R
  BY <1>1, WFMin
<1>3. ASSUME NEW y \in S PROVE x <= y
  <2>1. x \in Nat /\ y \in Nat /\ <<y, x>> \notin R
    BY <1>2
  <2>2. \A a, b \in Nat : a < b => <<a, b>> \in R
    BY SMT DEF R
  <2> QED BY <2>1, <2>2
<1> QED BY <1>3


\* A function from a finite set into the integers is bounded.
LEMMA Bounded ==
    ASSUME NEW D, IsFiniteSet(D), NEW f \in [D -> Int]
    PROVE  \E lo, hi \in Int : \A x \in D : lo <= f[x] /\ f[x] <= hi
<1> DEFINE n == Cardinality(D)
<1>1. n \in Nat /\ ExistsBijection(1 .. n, D)
  BY FS_CardinalityType
<1>2. PICK b \in [1 .. n -> D] : \A x \in D : \E i \in 1 .. n : b[i] = x
  BY <1>1, Zenon DEF ExistsBijection, Bijection, Surjection
<1> HIDE DEF n
<1> DEFINE Holds(m) == \E lo, hi \in Int : \A i \in 1 .. m : lo <= f[b[i]] /\ f[b[i]] <= hi
           Fails == {m \in 0 .. n : ~Holds(m)}
<1>3. Fails = {}
  <2> SUFFICES ASSUME Fails # {} PROVE FALSE
    OBVIOUS
  <2>0. Fails \subseteq Nat
    BY <1>1
  <2> HIDE DEF Holds
  <2>1. PICK m \in Fails : \A k \in Fails : m <= k
    <3> HIDE DEF Fails
    <3> QED BY <2>0, LeastOne
  <2>2. m \in 0 .. n /\ ~Holds(m)
    BY <2>1
  <2>3. m # 0
    <3>1. Holds(0)
      <4>1. \A i \in 1 .. 0 : 0 <= f[b[i]] /\ f[b[i]] <= 0
        OBVIOUS
      <4> QED BY <4>1 DEF Holds
    <3> QED BY <2>2, <3>1
  <2>4. m - 1 \in 0 .. n /\ ~(m <= m - 1) /\ m \in 1 .. n
    BY <1>1, <2>2, <2>3
  <2>5. Holds(m - 1)
    BY <2>1, <2>4
  <2> HIDE DEF Fails
  <2>6. PICK lo, hi \in Int : \A i \in 1 .. m - 1 : lo <= f[b[i]] /\ f[b[i]] <= hi
    BY <2>5 DEF Holds
  <2> DEFINE v == f[b[m]]
             low == IF v < lo THEN v ELSE lo
             high == IF v > hi THEN v ELSE hi
  <2>7. v \in Int
    BY <1>2, <2>4
  <2>8. ASSUME NEW i \in 1 .. m PROVE f[b[i]] \in Int /\ (i = m \/ i \in 1 .. m - 1)
    <3>1. i \in 1 .. n /\ (i = m \/ i \in 1 .. m - 1)
      BY <1>1, <2>4
    <3>2. b[i] \in D
      BY <1>2, <3>1
    <3> QED BY <3>1, <3>2
  <2>9. ASSUME NEW i \in 1 .. m PROVE low <= f[b[i]] /\ f[b[i]] <= high
    <3>1. CASE i = m
      BY <2>6, <2>7, <3>1
    <3>2. CASE i \in 1 .. m - 1
      <4>1. lo <= f[b[i]] /\ f[b[i]] <= hi
        BY <2>6, <3>2
      <4> HIDE DEF v
      <4> QED BY <2>6, <2>7, <2>8, <4>1
    <3> QED BY <2>8, <3>1, <3>2
  <2>10. low \in Int /\ high \in Int
    BY <2>7
  <2> HIDE DEF low, high
  <2>11. Holds(m)
    BY <2>9, <2>10 DEF Holds
  <2> QED BY <2>2, <2>11
<1>4. Holds(n)
  <2>1. n \in 0 .. n
    BY <1>1
  <2> HIDE DEF Holds
  <2> QED BY <1>3, <2>1
<1>5. PICK lo, hi \in Int : \A i \in 1 .. n : lo <= f[b[i]] /\ f[b[i]] <= hi
  BY <1>4
<1>6. \A x \in D : lo <= f[x] /\ f[x] <= hi
  BY <1>2, <1>5
<1> QED BY <1>6

\* Of a few values there is always a k-th.
LEMMA KthThere ==
    ASSUME NEW D, IsFiniteSet(D), NEW f \in [D -> Int], NEW k \in 1 .. Cardinality(D)
    PROVE  KthOf(f, k) \in Int
<1> DEFINE UpTo(x) == {i \in D : f[i] <= x}
           Below(x) == {i \in D : f[i] < x}
<1>1. PICK lo, hi \in Int : \A x \in D : lo <= f[x] /\ f[x] <= hi
  BY Bounded
<1> DEFINE Reached == {y \in Nat : Cardinality(UpTo(lo + y)) >= k}
<1>2. ASSUME NEW x PROVE Cardinality(UpTo(x)) \in Nat /\ Cardinality(Below(x)) \in Nat
  BY FS_Subset, FS_CardinalityType
<1>3. Cardinality(D) \in Nat /\ k \in Int /\ 1 <= k /\ k <= Cardinality(D) /\ D # {}
  <2>1. Cardinality(D) \in Nat
    BY FS_CardinalityType
  <2>2. D # {}
    BY <2>1, FS_EmptySet
  <2> QED BY <2>1, <2>2
<1>4. hi - lo \in Reached
  <2>1. UpTo(lo + (hi - lo)) = D
    BY <1>1
  <2>2. Cardinality(UpTo(lo + (hi - lo))) >= k
    <3>1. Cardinality(UpTo(lo + (hi - lo))) = Cardinality(D)
      BY <2>1
    <3> HIDE DEF UpTo
    <3> QED BY <1>3, <3>1
  <2>3. hi - lo \in Nat
    <3>1. PICK x \in D : TRUE
      BY <1>3
    <3> QED BY <1>1, <3>1
  <2> QED BY <2>2, <2>3
<1>5. PICK y \in Reached : \A z \in Reached : y <= z
  BY <1>4, LeastOne
<1> DEFINE x == lo + y
<1>6. y \in Nat /\ x \in Int /\ Cardinality(UpTo(x)) >= k
  BY <1>5
<1>7. Cardinality(UpTo(x - 1)) < k
  <2>1. CASE y = 0
    <3>1. \A i \in D : ~(f[i] <= x - 1)
      BY <1>1, <2>1
    <3>2. UpTo(x - 1) = {}
      BY <3>1
    <3>3. Cardinality(UpTo(x - 1)) = 0
      BY <3>2, FS_EmptySet
    <3> HIDE DEF UpTo
    <3> QED BY <1>3, <3>3
  <2>2. CASE y # 0
    <3>1. y - 1 \in Nat /\ ~(y <= y - 1)
      BY <1>6, <2>2
    <3>2. y - 1 \notin Reached
      BY <1>5, <3>1
    <3>3. lo + (y - 1) = x - 1
      BY <1>6
    <3>4. ~(Cardinality(UpTo(x - 1)) >= k)
      BY <3>1, <3>2, <3>3
    <3>5. Cardinality(UpTo(x - 1)) \in Nat
      BY <1>2
    <3> QED BY <1>3, <3>4, <3>5
  <2> QED BY <2>1, <2>2
<1>8. Below(x) = UpTo(x - 1)
  <2>1. \A i \in D : f[i] < x <=> f[i] <= x - 1
    BY <1>6
  <2> QED BY <2>1
<1>9. \E i \in D : f[i] = x
  <2> SUFFICES ASSUME \A i \in D : f[i] # x
               PROVE  FALSE
    OBVIOUS
  <2>1. \A i \in D : f[i] <= x <=> f[i] <= x - 1
    BY <1>6
  <2>2. UpTo(x) = UpTo(x - 1)
    BY <2>1
  <2>3. Cardinality(UpTo(x)) \in Nat
    BY <1>2
  <2>4. Cardinality(UpTo(x)) >= k /\ Cardinality(UpTo(x)) < k
    BY <1>6, <1>7, <2>2
  <2> HIDE DEF UpTo
  <2> QED BY <1>3, <2>3, <2>4
<1> HIDE DEF x
<1> DEFINE Is(z) == Cardinality(Below(z)) < k /\ Cardinality(UpTo(z)) >= k
<1>10. x \in {f[i] : i \in D} /\ Is(x)
  BY <1>6, <1>7, <1>8, <1>9
<1>11. KthOf(f, k) = CHOOSE z \in {f[i] : i \in D} : Is(z)
  <2>1. DOMAIN f = D
    OBVIOUS
  <2> QED BY <2>1 DEF KthOf
<1>12. KthOf(f, k) \in {f[i] : i \in D}
  BY <1>10, <1>11
<1> QED BY <1>12

\* The median of a few numbers is a number.
LEMMA Medians ==
    ASSUME NEW D, IsFiniteSet(D), D # {}, NEW f \in [D -> Int]
    PROVE  UpperMedian(f) \in Int
<1> DEFINE n == Cardinality(D)
<1>1. n \in Nat /\ n # 0
  BY FS_CardinalityType, FS_EmptySet
<1> HIDE DEF n
<1>2. n \div 2 + 1 \in 1 .. n
  BY <1>1
<1>3. KthOf(f, n \div 2 + 1) \in Int
  BY <1>2, KthThere DEF n
<1>4. DOMAIN f = D
  OBVIOUS
<1> QED BY <1>3, <1>4 DEF UpperMedian, n

-----------------------------------------------------------------------------
(* What a walk measures is of its type.                                    *)

\* Among flips there is one nearest to a time.
LEMMA NearestThere ==
    ASSUME NEW S, S \subseteq Int, S # {}, NEW time \in Int
    PROVE  Nearest(S, time) \in S
<1> DEFINE D == {d \in Nat : \E u \in S : d = Dist(u, time)}
           Best(t) == \A u \in S : \/ Dist(t, time) < Dist(u, time)
                                   \/ Dist(t, time) = Dist(u, time) /\ t <= u
<1>1. \A u \in S : Dist(u, time) \in D
  BY DEF Dist
<1>2. PICK d \in D : \A e \in D : d <= e
  <2>1. D \subseteq Nat /\ D # {}
    BY <1>1
  <2> HIDE DEF D
  <2> QED BY <2>1, LeastOne
<1>3. d \in Nat /\ \A u \in S : d <= Dist(u, time)
  BY <1>1, <1>2
<1>4. PICK v \in S : Dist(v, time) = d
  BY <1>2
<1>5. \A u \in S : Dist(u, time) = d => u = time - d \/ u = time + d
  BY <1>3 DEF Dist
<1>6. \A u \in S : Dist(u, time) \in Int
  BY DEF Dist
<1> HIDE DEF D
<1>7. CASE time - d \in S
  <2>1. Dist(time - d, time) = d
    BY <1>3 DEF Dist
  <2>2. ASSUME NEW u \in S
        PROVE  d < Dist(u, time) \/ (d = Dist(u, time) /\ time - d <= u)
    BY <1>3, <1>5, <1>6
  <2>3. Best(time - d)
    BY <2>1, <2>2
  <2> HIDE DEF Best
  <2>4. Nearest(S, time) = CHOOSE t \in S : Best(t)
    BY DEF Nearest, Best
  <2> QED BY <1>7, <2>3, <2>4
<1>8. CASE time - d \notin S
  <2>1. \A u \in S : Dist(u, time) = d => u = v
    BY <1>4, <1>5, <1>8
  <2>2. ASSUME NEW u \in S
        PROVE  d < Dist(u, time) \/ (d = Dist(u, time) /\ v <= u)
    BY <1>3, <1>6, <2>1
  <2>3. Best(v)
    BY <1>4, <2>2
  <2> HIDE DEF Best
  <2>4. Nearest(S, time) = CHOOSE t \in S : Best(t)
    BY DEF Nearest, Best
  <2> QED BY <2>3, <2>4
<1> QED BY <1>7, <1>8

\* The spacing of the flips known is a number.
LEMMA SpacingType ==
    ASSUME NEW S, S \subseteq Int, IsFiniteSet(S), NEW lo \in Int, NEW hi \in Int
    PROVE  MedianSpacing(S, lo, hi) \in Int
<1> DEFINE in == InRange(S, lo, hi)
           later == {t \in in : \E u \in in : u < t}
           Before(t, u) == u < t /\ \A w \in in : w < t => w <= u
           gap == [t \in later |-> t - (CHOOSE u \in in : Before(t, u))]
<1>1. in \subseteq Int /\ later \subseteq Int /\ IsFiniteSet(later)
  <2>1. later \subseteq S /\ in \subseteq S
    BY DEF InRange
  <2> QED BY <2>1, FS_Subset
<1> HIDE DEF in
<1>2. ASSUME NEW t \in later PROVE (CHOOSE u \in in : Before(t, u)) \in Int
  <2> DEFINE back == {d \in Nat : t - d \in in /\ d > 0}
  <2>1. PICK s \in in : s < t
    OBVIOUS
  <2>2. t \in Int /\ s \in Int
    BY <1>1, <2>1
  <2>3. t - s \in back
    <3>1. t - (t - s) = s /\ t - s \in Nat /\ t - s > 0
      BY <2>1, <2>2
    <3> QED BY <3>1
  <2>4. PICK d \in back : \A e \in back : d <= e
    <3>1. back \subseteq Nat /\ back # {}
      BY <2>3
    <3> HIDE DEF back
    <3> QED BY <3>1, LeastOne
  <2>5. t - d \in in /\ t - d < t
    BY <2>2, <2>4
  <2>6. ASSUME NEW w \in in, w < t PROVE w <= t - d
    <3>1. w \in Int
      BY <1>1
    <3>2. t - (t - w) = w /\ t - w \in Nat /\ t - w > 0
      BY <2>2, <2>6, <3>1
    <3>3. t - w \in back
      BY <3>2
    <3>4. d <= t - w /\ d \in Nat
      BY <2>4, <3>3
    <3> QED BY <2>2, <3>1, <3>4
  <2>7. Before(t, t - d)
    BY <2>5, <2>6
  <2> HIDE DEF Before, later
  <2> QED BY <1>1, <2>5, <2>7
<1>3. gap \in [later -> Int]
  <2> HIDE DEF Before
  <2>1. ASSUME NEW t \in later PROVE t - (CHOOSE u \in in : Before(t, u)) \in Int
    <3>1. t \in Int
      BY <1>1
    <3> HIDE DEF later
    <3> QED BY <1>2, <3>1
  <2> HIDE DEF later
  <2> QED BY <2>1
<1>4. MedianSpacing(S, lo, hi) = IF later = {} THEN 0 ELSE UpperMedian(gap)
  BY DEF MedianSpacing, in
<1> HIDE DEF gap, later
<1>5. later # {} => UpperMedian(gap) \in Int
  BY <1>1, <1>3, Medians
<1> QED BY <1>4, <1>5

\* The chain and a batch's place on it are of their types after each of the chain's steps.
Told(got) == got.chain \in Chain /\ got.fit \in Fit

LEMMA FitTypes ==
    Unknown \in Fit /\ Ahead \in Fit /\ Unknown.paired = FALSE /\ Ahead.paired = FALSE
<1> DEFINE none == 0
<1>1. none \in Int /\ Unknown = [paired |-> FALSE, ahead |-> FALSE, offset |-> none, warm |-> FALSE]
  BY DEF Unknown
<1> HIDE DEF none
<1>2. Unknown \in Fit /\ Unknown.paired = FALSE
  BY <1>1 DEF Fit
<1>3. Ahead \in Fit /\ Ahead.paired = FALSE
  BY <1>2 DEF Fit, Ahead
<1> QED BY <1>2, <1>3

LEMMA PlacedType ==
    ASSUME NEW offset \in Int
    PROVE  [Unknown EXCEPT !.paired = TRUE, !.offset = offset] \in Fit
BY FitTypes DEF Fit

LEMMA BrokenType == ASSUME NEW c \in Chain PROVE Broken(c) \in Chain
BY DEF Broken, Chain

LEMMA SeeType ==
    ASSUME NEW c \in Chain, NEW start \in Int
    PROVE  SeeBatch(c, start) \in Chain
<1> DEFINE g == Append(c.gaps, start - c.seen)
           gaps == IF c.any /\ start > c.seen THEN IF Len(g) > GapWindow THEN Tail(g) ELSE g
                   ELSE c.gaps
<1>1. c.gaps \in Seq(Int) /\ c.seen \in Int
  BY DEF Chain
<1>2. g \in Seq(Int)
  BY <1>1
<1> HIDE DEF g
<1>3. gaps \in Seq(Int)
  <2>1. Len(g) > GapWindow => Tail(g) \in Seq(Int)
    <3>1. Len(g) > GapWindow => g # <<>>
      BY <1>2 DEF GapWindow
    <3> QED BY <1>2, <3>1
  <2> QED BY <1>1, <1>2, <2>1
<1> HIDE DEF gaps
<1>4. CASE c.any /\ start = c.seen
  BY <1>4 DEF SeeBatch
<1>5. CASE ~(c.any /\ start = c.seen)
  <2>1. SeeBatch(c, start) = [c EXCEPT !.seen = start, !.any = TRUE, !.gaps = gaps]
    BY <1>5 DEF SeeBatch, gaps, g
  <2> QED BY <1>3, <2>1 DEF Chain
<1> QED BY <1>4, <1>5

LEMMA PeriodType == ASSUME NEW c \in Chain PROVE BatchPeriod(c) \in Int
<1>1. c.gaps \in Seq(Int)
  BY DEF Chain
<1>2. CASE Len(c.gaps) < LeastGaps
  BY <1>2 DEF BatchPeriod
<1>3. CASE ~(Len(c.gaps) < LeastGaps)
  <2> DEFINE D == 1 .. Len(c.gaps)
  <2>1. Len(c.gaps) \in Nat
    BY <1>1
  <2>2. IsFiniteSet(D)
    BY <2>1, FS_Interval
  <2>4. D # {}
    <3>1. 1 \in D
      BY <1>3, <2>1 DEF LeastGaps
    <3> HIDE DEF D
    <3> QED BY <3>1
  <2>3. c.gaps \in [D -> Int]
    BY <1>1
  <2> HIDE DEF D
  <2>5. UpperMedian(c.gaps) \in Int
    BY <2>2, <2>3, <2>4, Medians
  <2> QED BY <1>3, <2>5 DEF BatchPeriod
<1> QED BY <1>2, <1>3

LEMMA InRangeIn == ASSUME NEW S, S \subseteq Int, NEW lo, NEW hi PROVE InRange(S, lo, hi) \subseteq Int
BY DEF InRange

LEMMA AcquireType ==
    ASSUME NEW S, S \subseteq Int, NEW c \in Chain, NEW start \in Int, NEW spacing \in Int
    PROVE  Told(Acquire(S, c, start, spacing))
<1> DEFINE in == InRange(S, start - (spacing \div 4), start + (spacing \div 4) + spacing)
           best == Nearest(in, start)
           refuses == (spacing \div 4) <= 0 \/ in = {} \/ Dist(best, start) > (spacing \div 4)
<1>1. in \subseteq Int
  BY InRangeIn
<1> HIDE DEF in
<1>2. in # {} => best \in Int
  BY <1>1, NearestThere
<1> HIDE DEF best
<1>3. CASE refuses
  <2>1. Acquire(S, c, start, spacing) = [chain |-> c, fit |-> Unknown]
    BY <1>3 DEF Acquire, in, best
  <2> QED BY <2>1, FitTypes DEF Told
<1>4. CASE ~refuses
  <2>1. best \in Int
    BY <1>2, <1>4
  <2> DEFINE ch == [c EXCEPT !.anchor = best, !.anchorBatch = start, !.valid = TRUE, !.warmup = Warmup]
             ft == [Unknown EXCEPT !.paired = TRUE, !.offset = start - best]
  <2>2. Acquire(S, c, start, spacing) = [chain |-> ch, fit |-> ft]
    BY <1>4 DEF Acquire, in, best
  <2>3. ch \in Chain
    BY <2>1, Constants DEF Chain
  <2>4. ft \in Fit
    <3>1. start - best \in Int
      BY <2>1
    <3> QED BY <3>1, PlacedType
  <2> HIDE DEF ch, ft
  <2> QED BY <2>2, <2>3, <2>4 DEF Told
<1> QED BY <1>3, <1>4

LEMMA AcceptType ==
    ASSUME NEW c \in Chain, NEW start \in Int, NEW best \in Int, NEW spacing, NEW period
    PROVE  Told(Accept(c, start, best, spacing, period))
<1> DEFINE late == start - best
           run == IF late > spacing \div 8 THEN c.lateRun + 1 ELSE 0
           warm == IF c.warmup > 0 THEN c.warmup - 1 ELSE 0
           within == late > -(spacing \div 2) /\ late < (period * 3) \div 4
           ch == [c EXCEPT !.anchor = best, !.anchorBatch = start, !.lateRun = run, !.warmup = warm]
           ft == [paired |-> TRUE, ahead |-> FALSE, offset |-> late, warm |-> warm = 0]
<1>1. late \in Int /\ run \in Nat /\ warm \in Nat
  BY DEF Chain
<1>2. ch \in Chain /\ ft \in Fit
  <2> HIDE DEF run, warm, late
  <2>1. ch \in Chain
    BY <1>1 DEF Chain
  <2>2. (warm = 0) \in BOOLEAN
    OBVIOUS
  <2>3. ft \in Fit
    BY <1>1, <2>2 DEF Fit
  <2> QED BY <2>1, <2>3
<1>3. CASE ~within
  <2>1. Accept(c, start, best, spacing, period) = [chain |-> Broken(c), fit |-> Unknown]
    BY <1>3 DEF Accept
  <2> QED BY <2>1, FitTypes, BrokenType DEF Told
<1>4. CASE within /\ run >= LateRunLimit
  <2>1. Accept(c, start, best, spacing, period)
        = [chain |-> [Broken(c) EXCEPT !.lateRun = 0], fit |-> Unknown]
    BY <1>4 DEF Accept
  <2>2. [Broken(c) EXCEPT !.lateRun = 0] \in Chain
    BY BrokenType DEF Chain
  <2> QED BY <2>1, <2>2, FitTypes DEF Told
<1>5. CASE within /\ ~(run >= LateRunLimit)
  <2>1. Accept(c, start, best, spacing, period) = [chain |-> ch, fit |-> ft]
    BY <1>5 DEF Accept
  <2> HIDE DEF ch, ft
  <2> QED BY <1>2, <2>1 DEF Told
<1> HIDE DEF within, run
<1> QED BY <1>3, <1>4, <1>5

LEMMA PredictType ==
    ASSUME NEW S, S \subseteq Int, NEW c \in Chain, NEW start \in Int, NEW spacing \in Int,
           spacing > 0, NEW period \in Int, NEW n \in Int
    PROVE  Told(Predict(S, c, start, spacing, period, n))
<1> DEFINE at == c.anchor + n * Stride(period, spacing) * spacing
           in == InRange(S, at - (spacing \div 2), at + (spacing \div 2))
           early == S # {} /\ \A t \in S : t < at + (spacing \div 2)
<1>1. at \in Int
  <2>1. (period + (spacing \div 2)) \div spacing \in Int
    OBVIOUS
  <2>2. Stride(period, spacing) \in Int
    BY <2>1 DEF Stride, MostStride
  <2>3. c.anchor \in Int
    BY DEF Chain
  <2>4. n * Stride(period, spacing) \in Int
    BY <2>2
  <2>5. n * Stride(period, spacing) * spacing \in Int
    BY <2>4
  <2> QED BY <2>3, <2>5
<1> HIDE DEF at
<1>2. in \subseteq Int
  BY InRangeIn
<1> HIDE DEF in
<1>3. in # {} => Nearest(in, at) \in Int
  BY <1>1, <1>2, NearestThere
<1> DEFINE best == Nearest(in, at)
<1> HIDE DEF best
<1>4. CASE early
  <2>1. Predict(S, c, start, spacing, period, n) = [chain |-> c, fit |-> Ahead]
    BY <1>4 DEF Predict, at
  <2> QED BY <2>1, FitTypes DEF Told
<1>5. CASE ~early /\ in = {}
  <2>1. Predict(S, c, start, spacing, period, n) = [chain |-> Broken(c), fit |-> Unknown]
    BY <1>5 DEF Predict, at, in
  <2> QED BY <2>1, FitTypes, BrokenType DEF Told
<1>6. CASE ~early /\ in # {}
  <2>1. Predict(S, c, start, spacing, period, n) = Accept(c, start, best, spacing, period)
    BY <1>6 DEF Predict, at, in, best
  <2>2. best \in Int
    BY <1>3, <1>6 DEF best
  <2> QED BY <2>1, <2>2, AcceptType
<1> HIDE DEF early
<1> QED BY <1>4, <1>5, <1>6

LEMMA AnchorType ==
    ASSUME NEW S, S \subseteq Int, NEW c \in Chain, NEW start \in Int, NEW spacing \in Int
    PROVE  /\ Told(AnchorBatch(S, c, start, spacing))
           /\ AnchorBatch(S, c, start, spacing).fit.paired => spacing > 0
<1> DEFINE got == AnchorBatch(S, c, start, spacing)
           seen == SeeBatch(c, start)
           period == BatchPeriod(seen)
           n == BatchesPast(seen, start, period)
           told == IF n \in 1 .. MostBatches THEN Predict(S, seen, start, spacing, period, n)
                   ELSE [chain |-> IF n > MostBatches THEN Broken(seen) ELSE seen, fit |-> Unknown]
<1>1. seen \in Chain
  BY SeeType
<1> HIDE DEF seen
<1>2. period \in Int
  BY <1>1, PeriodType
<1> HIDE DEF period, n
<1>3. CASE spacing <= 0
  <2>1. got = [chain |-> c, fit |-> Unknown]
    BY <1>3 DEF AnchorBatch
  <2>2. Unknown \in Fit /\ Unknown.paired = FALSE
    BY FitTypes
  <2> HIDE DEF got
  <2>3. Told(got) /\ ~got.fit.paired
    BY <2>1, <2>2 DEF Told
  <2> QED BY <2>3 DEF got
<1>4. CASE spacing > 0
  <2>1. Told(told)
    <3>1. CASE n \in 1 .. MostBatches
      <4>1. n \in Int
        BY <3>1
      <4>2. Told(Predict(S, seen, start, spacing, period, n))
        BY <1>1, <1>2, <1>4, <4>1, PredictType
      <4> QED BY <3>1, <4>2
    <3>2. CASE n \notin 1 .. MostBatches
      <4> DEFINE ch == IF n > MostBatches THEN Broken(seen) ELSE seen
      <4>1. ch \in Chain
        BY <1>1, BrokenType
      <4> HIDE DEF ch
      <4>2. told = [chain |-> ch, fit |-> Unknown]
        BY <3>2 DEF ch
      <4>3. Unknown \in Fit
        BY FitTypes
      <4> HIDE DEF told
      <4> QED BY <4>1, <4>2, <4>3 DEF Told
    <3> QED BY <3>1, <3>2
  <2> HIDE DEF told
  <2>2. told.chain \in Chain
    BY <2>1 DEF Told
  <2>3. Told(Acquire(S, seen, start, spacing)) /\ Told(Acquire(S, told.chain, start, spacing))
    BY <1>1, <2>2, AcquireType
  <2>4. got \in {told, Acquire(S, seen, start, spacing), Acquire(S, told.chain, start, spacing)}
    <3>1. ~(spacing <= 0)
      BY <1>4
    <3>2. got = IF ~seen.valid \/ period = 0 THEN Acquire(S, seen, start, spacing)
                ELSE IF n = 0 \/ told.fit # Unknown THEN told
                ELSE Acquire(S, told.chain, start, spacing)
      BY <3>1 DEF AnchorBatch, seen, period, n, told
    <3> HIDE DEF got
    <3> QED BY <3>2
  <2> HIDE DEF got
  <2>5. Told(got)
    BY <2>1, <2>3, <2>4
  <2> QED BY <1>4, <2>5 DEF got
<1> QED BY <1>3, <1>4

\* What a batch came late by is never less than nothing.
LEMMA LateType ==
    ASSUME NEW S, S \subseteq Int, IsFiniteSet(S), NEW c \in Chain, NEW start \in Int
    PROVE  /\ MeasureLateness(S, c, start, Window).chain \in Chain
           /\ MeasureLateness(S, c, start, Window).late \in Nat
<1> DEFINE spacing == MedianSpacing(S, start - Window, start)
           got == AnchorBatch(S, c, start, spacing)
           late == IF got.fit.paired /\ got.fit.warm /\ got.fit.offset > spacing \div 8
                   THEN got.fit.offset ELSE 0
<1>1. spacing \in Int
  <2>1. start - Window \in Int
    BY Constants
  <2> QED BY <2>1, SpacingType
<1> HIDE DEF spacing
<1>2. Told(got) /\ (got.fit.paired => spacing > 0)
  BY <1>1, AnchorType
<1> HIDE DEF got
<1>3. late \in Nat
  <2>1. got.fit.offset \in Int
    BY <1>2 DEF Told, Fit
  <2>2. spacing > 0 => spacing \div 8 \in Nat
    BY <1>1
  <2> QED BY <1>1, <1>2, <2>1, <2>2
<1>4. got.chain \in Chain
  BY <1>2 DEF Told
<1> DEFINE m == MeasureLateness(S, c, start, Window)
<1> HIDE DEF late
<1>5. m = [chain |-> got.chain, pending |-> ~got.fit.paired /\ got.fit.ahead, late |-> late]
  BY DEF MeasureLateness, got, spacing, late
<1> HIDE DEF m
<1>6. m.chain \in Chain /\ m.late \in Nat
  BY <1>3, <1>4, <1>5
<1> QED BY <1>6 DEF m

\* What a reading says of the chain it is from: one late enough to be taken makes its run of late
\* ones longer, and one that has to wait leaves it as it is.
Counts(c, got, spacing) ==
    /\ got.fit.paired /\ got.fit.warm /\ got.fit.offset > spacing \div 8 =>
          got.chain.lateRun = c.lateRun + 1 /\ got.chain.lateRun < LateRunLimit
    /\ got.fit.ahead => got.chain.lateRun = c.lateRun /\ got.chain.valid = c.valid

LEMMA AcceptCounts ==
    ASSUME NEW c \in Chain, NEW start \in Int, NEW best \in Int, NEW spacing, NEW period
    PROVE  Counts(c, Accept(c, start, best, spacing, period), spacing)
<1> DEFINE late == start - best
           run == IF late > spacing \div 8 THEN c.lateRun + 1 ELSE 0
           warm == IF c.warmup > 0 THEN c.warmup - 1 ELSE 0
           within == late > -(spacing \div 2) /\ late < (period * 3) \div 4
           got == Accept(c, start, best, spacing, period)
<1>1. CASE ~within
  <2>1. got = [chain |-> Broken(c), fit |-> Unknown]
    BY <1>1 DEF Accept
  <2> HIDE DEF got
  <2>2. Counts(c, got, spacing)
    BY <2>1 DEF Counts, Unknown
  <2> QED BY <2>2 DEF got
<1>2. CASE within /\ run >= LateRunLimit
  <2>1. got = [chain |-> [Broken(c) EXCEPT !.lateRun = 0], fit |-> Unknown]
    BY <1>2 DEF Accept
  <2> HIDE DEF got
  <2>2. Counts(c, got, spacing)
    BY <2>1 DEF Counts, Unknown
  <2> QED BY <2>2 DEF got
<1>3. CASE within /\ ~(run >= LateRunLimit)
  <2> DEFINE ch == [c EXCEPT !.anchor = best, !.anchorBatch = start, !.lateRun = run, !.warmup = warm]
             ft == [paired |-> TRUE, ahead |-> FALSE, offset |-> late, warm |-> warm = 0]
  <2>1. got = [chain |-> ch, fit |-> ft]
    BY <1>3 DEF Accept
  <2> HIDE DEF got
  <2>2. ch.lateRun = run
    <3> HIDE DEF run, warm
    <3> QED BY DEF Chain
  <2>3. ft.offset = late /\ ~ft.ahead
    OBVIOUS
  <2> HIDE DEF ch, ft
  <2>4. got.chain.lateRun = run /\ got.fit.offset = late /\ ~got.fit.ahead
    BY <2>1, <2>2, <2>3
  <2>5. late > spacing \div 8 => run = c.lateRun + 1 /\ run < LateRunLimit
    <3>1. c.lateRun \in Nat
      BY DEF Chain
    <3>2. run \in Nat
      BY <3>1
    <3> HIDE DEF late
    <3>3. late > spacing \div 8 => run = c.lateRun + 1
      OBVIOUS
    <3>4. run < LateRunLimit
      BY <1>3, <3>2 DEF LateRunLimit
    <3> QED BY <3>3, <3>4
  <2> HIDE DEF run, late
  <2>6. Counts(c, got, spacing)
    BY <2>4, <2>5 DEF Counts
  <2> QED BY <2>6 DEF got
<1> HIDE DEF within, run
<1> QED BY <1>1, <1>2, <1>3

LEMMA PredictCounts ==
    ASSUME NEW S, S \subseteq Int, NEW c \in Chain, NEW start \in Int, NEW spacing \in Int,
           spacing > 0, NEW period \in Int, NEW n \in Int
    PROVE  Counts(c, Predict(S, c, start, spacing, period, n), spacing)
<1> DEFINE at == c.anchor + n * Stride(period, spacing) * spacing
           in == InRange(S, at - (spacing \div 2), at + (spacing \div 2))
           early == S # {} /\ \A t \in S : t < at + (spacing \div 2)
           best == Nearest(in, at)
           got == Predict(S, c, start, spacing, period, n)
<1>0. at \in Int
  <2>1. (period + (spacing \div 2)) \div spacing \in Int
    OBVIOUS
  <2>2. Stride(period, spacing) \in Int
    BY <2>1 DEF Stride, MostStride
  <2>3. c.anchor \in Int
    BY DEF Chain
  <2>4. n * Stride(period, spacing) \in Int
    BY <2>2
  <2>5. n * Stride(period, spacing) * spacing \in Int
    BY <2>4
  <2> QED BY <2>3, <2>5
<1> HIDE DEF at
<1>1. in \subseteq Int
  BY InRangeIn
<1> HIDE DEF in
<1>2. CASE early
  <2>1. got = [chain |-> c, fit |-> Ahead]
    BY <1>2 DEF Predict, at
  <2> HIDE DEF got
  <2>2. Counts(c, got, spacing)
    BY <2>1 DEF Counts, Ahead, Unknown
  <2> QED BY <2>2 DEF got
<1>3. CASE ~early /\ in = {}
  <2>1. got = [chain |-> Broken(c), fit |-> Unknown]
    BY <1>3 DEF Predict, at, in
  <2> HIDE DEF got
  <2>2. Counts(c, got, spacing)
    BY <2>1 DEF Counts, Unknown
  <2> QED BY <2>2 DEF got
<1>4. CASE ~early /\ in # {}
  <2>1. got = Accept(c, start, best, spacing, period)
    BY <1>4 DEF Predict, at, in
  <2>2. best \in Int
    BY <1>0, <1>1, <1>4, NearestThere
  <2> HIDE DEF got, best
  <2>3. Counts(c, Accept(c, start, best, spacing, period), spacing)
    BY <2>2, AcceptCounts
  <2>4. Counts(c, got, spacing)
    BY <2>1, <2>3
  <2> QED BY <2>4 DEF got
<1> HIDE DEF early
<1> QED BY <1>2, <1>3, <1>4

LEMMA SeeCounts ==
    ASSUME NEW c \in Chain, NEW start \in Int
    PROVE  SeeBatch(c, start).valid = c.valid /\ SeeBatch(c, start).lateRun = c.lateRun
BY DEF SeeBatch, Chain

\* A batch that is acquired corrects nothing: its chain has to prove itself first.
LEMMA AcquireCounts ==
    ASSUME NEW S, NEW c, NEW start, NEW spacing
    PROVE  /\ ~Acquire(S, c, start, spacing).fit.warm
           /\ ~Acquire(S, c, start, spacing).fit.ahead
<1> DEFINE in == InRange(S, start - (spacing \div 4), start + (spacing \div 4) + spacing)
           best == Nearest(in, start)
           refuses == (spacing \div 4) <= 0 \/ in = {} \/ Dist(best, start) > (spacing \div 4)
           got == Acquire(S, c, start, spacing)
           ch == [c EXCEPT !.anchor = best, !.anchorBatch = start, !.valid = TRUE, !.warmup = Warmup]
<1>1. got = IF refuses THEN [chain |-> c, fit |-> Unknown]
            ELSE [chain |-> ch, fit |-> [Unknown EXCEPT !.paired = TRUE, !.offset = start - best]]
  BY DEF Acquire
<1> HIDE DEF refuses, got, ch, best, in
<1>2. ~got.fit.warm /\ ~got.fit.ahead
  BY <1>1 DEF Unknown
<1> QED BY <1>2 DEF got

\* A reading taken from a chain, whole or by way of an acquisition.
AnchorReads(c, got, spacing) ==
    /\ Counts(c, got, spacing)
    /\ got.fit.warm => c.valid

LEMMA AnchorCounts ==
    ASSUME NEW S, S \subseteq Int, NEW c \in Chain, NEW start \in Int, NEW spacing \in Int
    PROVE  AnchorReads(c, AnchorBatch(S, c, start, spacing), spacing)
<1> DEFINE got == AnchorBatch(S, c, start, spacing)
           seen == SeeBatch(c, start)
           period == BatchPeriod(seen)
           n == BatchesPast(seen, start, period)
           told == IF n \in 1 .. MostBatches THEN Predict(S, seen, start, spacing, period, n)
                   ELSE [chain |-> IF n > MostBatches THEN Broken(seen) ELSE seen, fit |-> Unknown]
<1>1. seen \in Chain /\ seen.valid = c.valid /\ seen.lateRun = c.lateRun
  BY SeeType, SeeCounts
<1> HIDE DEF seen
<1>2. period \in Int
  BY <1>1, PeriodType
<1> HIDE DEF period, n
<1>3. CASE spacing <= 0
  <2>1. got = [chain |-> c, fit |-> Unknown]
    BY <1>3 DEF AnchorBatch
  <2> HIDE DEF got
  <2>2. AnchorReads(c, got, spacing)
    BY <2>1 DEF AnchorReads, Counts, Unknown
  <2> QED BY <2>2 DEF got
<1>4. CASE spacing > 0
  <2> DEFINE here == Acquire(S, seen, start, spacing)
             anew == Acquire(S, told.chain, start, spacing)
  <2>1. Counts(seen, told, spacing)
    <3>1. CASE n \in 1 .. MostBatches
      <4>1. n \in Int
        BY <3>1
      <4>2. Counts(seen, Predict(S, seen, start, spacing, period, n), spacing)
        BY <1>1, <1>2, <1>4, <4>1, PredictCounts
      <4> QED BY <3>1, <4>2
    <3>2. CASE n \notin 1 .. MostBatches
      <4>1. told.fit = Unknown
        BY <3>2
      <4> HIDE DEF told
      <4> QED BY <4>1 DEF Counts, Unknown
    <3> QED BY <3>1, <3>2
  <2> HIDE DEF told
  <2>2. ~here.fit.warm /\ ~here.fit.ahead /\ ~anew.fit.warm /\ ~anew.fit.ahead
    BY AcquireCounts
  <2>3. got = IF ~seen.valid \/ period = 0 THEN here
              ELSE IF n = 0 \/ told.fit # Unknown THEN told ELSE anew
    <3>1. ~(spacing <= 0)
      BY <1>4
    <3> QED BY <3>1 DEF AnchorBatch, seen, period, n, told
  <2> HIDE DEF got, here, anew
  <2>4. CASE got = told /\ seen.valid
    <3>1. Counts(c, got, spacing)
      BY <1>1, <2>1, <2>4 DEF Counts
    <3>2. AnchorReads(c, got, spacing)
      BY <1>1, <2>4, <3>1 DEF AnchorReads
    <3> QED BY <3>2 DEF got
  <2>5. CASE got \in {here, anew}
    <3>1. ~got.fit.warm /\ ~got.fit.ahead
      BY <2>2, <2>5
    <3>2. AnchorReads(c, got, spacing)
      BY <3>1 DEF AnchorReads, Counts
    <3> QED BY <3>2 DEF got
  <2>6. (got = told /\ seen.valid) \/ got \in {here, anew}
    BY <2>3
  <2> QED BY <2>4, <2>5, <2>6
<1> QED BY <1>3, <1>4

\* What the walk learns of a batch.
Reads(c, m) ==
    /\ m.late # 0 => c.valid /\ m.chain.lateRun = c.lateRun + 1 /\ m.chain.lateRun < LateRunLimit
    /\ m.pending => m.chain.lateRun = c.lateRun /\ m.chain.valid = c.valid

LEMMA LateReads ==
    ASSUME NEW S, S \subseteq Int, IsFiniteSet(S), NEW c \in Chain, NEW start \in Int
    PROVE  Reads(c, MeasureLateness(S, c, start, Window))
<1> DEFINE spacing == MedianSpacing(S, start - Window, start)
           got == AnchorBatch(S, c, start, spacing)
           late == IF got.fit.paired /\ got.fit.warm /\ got.fit.offset > spacing \div 8
                   THEN got.fit.offset ELSE 0
           m == MeasureLateness(S, c, start, Window)
<1>1. spacing \in Int
  <2>1. start - Window \in Int
    BY Constants
  <2> QED BY <2>1, SpacingType
<1>2. m = [chain |-> got.chain, pending |-> ~got.fit.paired /\ got.fit.ahead, late |-> late]
  BY DEF MeasureLateness
<1> HIDE DEF m, spacing
<1>3. AnchorReads(c, got, spacing)
  BY <1>1, AnchorCounts
<1> HIDE DEF got
<1>4. late # 0 => got.fit.paired /\ got.fit.warm /\ got.fit.offset > spacing \div 8
  OBVIOUS
<1> HIDE DEF late
<1>5. m.chain = got.chain /\ m.late = late /\ (m.pending => got.fit.ahead)
  BY <1>2
<1>6. Reads(c, m)
  BY <1>3, <1>4, <1>5 DEF Reads, AnchorReads, Counts
<1> QED BY <1>6 DEF m

-----------------------------------------------------------------------------
(* The overlay.                                                            *)

\* A key that only one mark has finds that mark, and one that none has finds nothing.
LEMMA CorrectionIs ==
    ASSUME NEW over \in Seq(Mark), NEW key
    PROVE  /\ (\A i \in 1 .. Len(over) : over[i].key # key) => Correction(over, key) = 0
           /\ \A k \in 1 .. Len(over) :
                 over[k].key = key /\ (\A i \in 1 .. Len(over) : over[i].key = key => i = k) =>
                     Correction(over, key) = over[k].late
           /\ Correction(over, key) \in Nat
           /\ Correction(over, key) # 0 =>
                 \E i \in 1 .. Len(over) :
                    over[i].key = key /\ over[i].late = Correction(over, key)
<1> DEFINE I == {i \in 1 .. Len(over) : over[i].key = key}
           at == SelectInSeq(over, LAMBDA e : e.key = key)
<1>1. at = IF I # {} THEN Min(I) ELSE 0
  BY DEF SelectInSeq
<1>2. Min(I) = CHOOSE x \in I : \A y \in I : x <= y
  BY DEF Min
<1>3. I \subseteq Nat /\ I \subseteq 1 .. Len(over)
  OBVIOUS
<1>4. I # {} => Min(I) \in I
  <2> HIDE DEF I
  <2>1. ASSUME I # {} PROVE \E x \in I : \A y \in I : x <= y
    BY <1>3, <2>1, LeastOne
  <2> QED BY <1>2, <2>1
<1>5. Correction(over, key) = IF at = 0 THEN 0 ELSE over[at].late
  BY DEF Correction
<1> HIDE DEF at
<1>6. CASE I = {}
  BY <1>1, <1>5, <1>6
<1>7. CASE I # {}
  <2>1. at \in I /\ at \in 1 .. Len(over) /\ at # 0
    <3>1. at \in I
      BY <1>1, <1>4, <1>7
    <3> QED BY <1>3, <3>1
  <2>2. over[at] \in Mark
    BY <2>1
  <2>3. over[at].key = key /\ over[at].late \in Nat
    BY <2>1, <2>2 DEF Mark
  <2>4. Correction(over, key) = over[at].late
    BY <1>5, <2>1
  <2> QED BY <2>1, <2>3, <2>4
<1> QED BY <1>6, <1>7

LEMMA RingWithin ==
    ASSUME HistoryInv
    PROVE  \A i \in InRing : i \in 1 .. Len(batches) /\ i <= RingBatches
<1> DEFINE S == {RingBatches, Len(batches)}
<1>1. RingBatches \in Nat /\ Len(batches) \in Nat
  BY Constants DEF HistoryInv
<1>2. Min(S) = CHOOSE x \in S : \A y \in S : x <= y
  BY DEF Min
<1>3. \E x \in S : \A y \in S : x <= y
  BY <1>1
<1>4. Min(S) \in S /\ \A y \in S : Min(S) <= y
  BY <1>2, <1>3
<1>5. Min(S) <= RingBatches /\ Min(S) <= Len(batches) /\ Min(S) \in Nat
  BY <1>1, <1>4
<1> HIDE DEF S
<1>6. InRing = 1 .. Min(S)
  BY DEF InRing, S
<1> QED BY <1>1, <1>5, <1>6

LEMMA HistoryFacts ==
    ASSUME HistoryInv
    PROVE  /\ Len(batches) \in Nat /\ \A k \in 1 .. Len(batches) : batches[k].start \in Int
           /\ \A i, j \in 1 .. Len(batches) : i < j => batches[j].start < batches[i].start
           /\ \A i, j \in 1 .. Len(batches) :
                 batches[i].start < batches[j].start => j < i
           /\ Period \in Nat \ {0} /\ Floor \in Int /\ Floor < 0 /\ consumed \in Int /\ Floor <= consumed
<1>1. batches \in Seq(Batch) /\ Len(batches) \in Nat
  BY DEF HistoryInv
<1>2. \A k \in 1 .. Len(batches) : batches[k].start \in Int
  <2>1. \A k \in 1 .. Len(batches) : batches[k] \in Batch
    BY <1>1
  <2> QED BY <2>1 DEF Batch
<1>3. \A i, j \in 1 .. Len(batches) : i < j => batches[j].start < batches[i].start
  BY DEF HistoryInv
<1>4. ASSUME NEW i \in 1 .. Len(batches), NEW j \in 1 .. Len(batches),
             batches[i].start < batches[j].start
      PROVE  j < i
  <2>1. batches[i].start \in Int /\ batches[j].start \in Int
    BY <1>2
  <2>2. CASE i < j
    BY <1>3, <1>4, <2>1, <2>2
  <2>3. CASE i = j
    BY <1>4, <2>1, <2>3
  <2> QED BY <1>1, <2>2, <2>3
<1>5. Period \in Nat \ {0} /\ Floor \in Int /\ Floor < 0
  <2>1. stride \in Nat \ {0}
    BY DEF HistoryInv
  <2>2. Period \in Nat \ {0}
    BY <2>1, Constants DEF Period
  <2>3. History * Period \in Nat
    BY <2>2, Constants
  <2> QED BY <2>2, <2>3, Constants DEF Floor
<1>6. consumed \in Int /\ Floor <= consumed
  BY DEF HistoryInv
<1> QED BY <1>1, <1>2, <1>3, <1>4, <1>5, <1>6

\* A mark for the oldest batch still to walk goes to the end, and what falls out at the front is
\* older than the ring: as many batches as the ring holds were marked after it.
LEMMA InsertKeeps ==
    ASSUME HistoryInv, NEW over, NEW n \in 1 .. Len(batches), Ordered(over, n),
           NEW late \in Nat, NEW target \in Int, consumed <= target,
           target < batches[n].start, target < batches[n].start - late
    PROVE  /\ Ordered(Insert(over, batches[n].start, late), n - 1)
           /\ \A i \in InRing :
                 consumed < batches[i].start =>
                     (batches[i].start - Correction(over, batches[i].start) <= consumed
                      <=> batches[i].start
                            - Correction(Insert(over, batches[n].start, late), batches[i].start)
                          <= consumed)
<1> DEFINE start == batches[n].start
           m == [key |-> start, late |-> late]
           o == Append(over, m)
           r == Insert(over, start, late)
           L == Len(over)
           s == IF L + 1 > Entries THEN 1 ELSE 0
<1>1. /\ over \in Seq(Mark) /\ L \in Nat /\ L <= Entries
      /\ start \in Int /\ Floor < start /\ consumed < start
  BY HistoryFacts DEF Ordered
<1>2. \A i \in 1 .. L : over[i] \in Mark /\ over[i].key \in Int /\ over[i].late \in Nat
  <2>1. \A i \in 1 .. L : over[i] \in Mark
    BY <1>1
  <2> QED BY <2>1 DEF Mark
<1>3. \A i \in 1 .. L : over[i].key < start
  <2>1. \A i \in 1 .. L : over[i].key # Floor => over[i].key < start
    <3>1. n <= n
      OBVIOUS
    <3> QED BY <3>1 DEF Ordered
  <2> QED BY <1>1, <2>1
<1>4. m \in Mark /\ m.key = start /\ m.late = late
  BY <1>1 DEF Mark
<1> HIDE DEF m
<1>5. /\ o \in Seq(Mark) /\ Len(o) = L + 1 /\ o[L + 1] = m
      /\ \A i \in 1 .. L : o[i] = over[i]
  BY <1>1, <1>4
<1> HIDE DEF o
<1>6. /\ s \in {0, 1} /\ r \in Seq(Mark) /\ Len(r) = L + 1 - s /\ Len(r) >= 1
      /\ \A i \in 1 .. Len(r) : r[i] = o[i + s] /\ i + s \in 1 .. L + 1
  <2>1. r = IF Len(o) > Entries THEN Tail(o) ELSE o
    BY DEF Insert, o, m
  <2> HIDE DEF r
  <2>2. CASE L + 1 > Entries
    <3>1. r = Tail(o) /\ s = 1 /\ L >= 1
      BY <1>1, <1>5, <2>1, <2>2, Constants
    <3>2. /\ Tail(o) \in Seq(Mark) /\ Len(Tail(o)) = L
          /\ \A i \in 1 .. L : Tail(o)[i] = o[i + 1]
      BY <1>1, <1>5, <3>1
    <3> HIDE DEF s
    <3> QED BY <1>1, <3>1, <3>2
  <2>3. CASE ~(L + 1 > Entries)
    <3>1. r = o /\ s = 0
      BY <1>1, <1>5, <2>1, <2>3, Constants
    <3> HIDE DEF s
    <3> QED BY <1>1, <1>5, <3>1
  <2> QED BY <2>2, <2>3
<1>7. Len(r) <= Entries /\ (s = 1 => L = Entries)
  BY <1>1, <1>6, Constants
<1> HIDE DEF r, s
\* What holds of the overlay holds with the new mark.
<1>8. ASSUME NEW i \in 1 .. L + 1
      PROVE  /\ o[i].key \in Int /\ Floor <= o[i].key
             /\ o[i].key # Floor =>
                   Known(o[i].key)
                   /\ \A k \in 1 .. Len(batches) : k <= n - 1 => o[i].key < batches[k].start
  <2>1. CASE i = L + 1
    <3>1. Known(start)
      <4>1. batches # <<>>
        OBVIOUS
      <4> QED BY <4>1 DEF Known
    <3>2. \A k \in 1 .. Len(batches) : k <= n - 1 => start < batches[k].start
      <4>1. \A k \in 1 .. Len(batches) : k <= n - 1 => k < n
        BY HistoryFacts
      <4> QED BY <4>1, HistoryFacts
    <3>3. o[i].key = start
      BY <1>4, <1>5, <2>1
    <3> HIDE DEF start
    <3> QED BY <1>1, <3>1, <3>2, <3>3, HistoryFacts
  <2>2. CASE i # L + 1
    <3>1. i \in 1 .. L /\ o[i] = over[i]
      BY <1>1, <1>5, <2>2
    <3>2. \A k \in 1 .. Len(batches) : k <= n - 1 => k <= n
      BY HistoryFacts
    <3> QED BY <1>2, <3>1, <3>2 DEF Ordered
  <2> QED BY <2>1, <2>2
<1>9. ASSUME NEW i \in 1 .. L + 1, NEW j \in 1 .. L + 1, i < j
      PROVE  o[i].key < o[j].key \/ o[i].key = Floor
  <2>1. i \in 1 .. L /\ o[i] = over[i]
    BY <1>1, <1>5, <1>9
  <2>2. CASE j = L + 1
    BY <1>3, <1>4, <1>5, <2>1, <2>2
  <2>3. CASE j # L + 1
    <3>1. j \in 1 .. L /\ o[j] = over[j]
      BY <1>1, <1>5, <2>3
    <3> QED BY <1>9, <2>1, <3>1 DEF Ordered
  <2> QED BY <2>2, <2>3
<1>10. Ordered(r, n - 1)
  <2>1. \A i \in 1 .. Len(r) : Floor <= r[i].key
    BY <1>6, <1>8
  <2>2. ASSUME NEW i \in 1 .. Len(r), NEW j \in 1 .. Len(r), i < j
        PROVE  r[i].key < r[j].key \/ r[i].key = Floor
    <3>1. i + s < j + s /\ i + s \in 1 .. L + 1 /\ j + s \in 1 .. L + 1
      BY <1>1, <1>6, <2>2
    <3> QED BY <1>6, <1>9, <3>1
  <2>3. \A i \in 1 .. Len(r) :
           r[i].key # Floor =>
               Known(r[i].key)
               /\ \A k \in 1 .. Len(batches) : k <= n - 1 => r[i].key < batches[k].start
    BY <1>6, <1>8
  <2> QED BY <1>6, <1>7, <2>1, <2>2, <2>3 DEF Ordered
\* A key above Floor is there once.
<1>11. ASSUME NEW i \in 1 .. L + 1, NEW j \in 1 .. L + 1, o[i].key = o[j].key, o[i].key # Floor
       PROVE  i = j
  <2>1. CASE i < j
    BY <1>8, <1>9, <1>11, <2>1
  <2>2. CASE j < i
    BY <1>8, <1>9, <1>11, <2>2
  <2> QED BY <1>1, <2>1, <2>2
<1>12. ASSUME NEW b \in InRing, consumed < batches[b].start
       PROVE  batches[b].start - Correction(over, batches[b].start) <= consumed
              <=> batches[b].start - Correction(r, batches[b].start) <= consumed
  <2> DEFINE at == batches[b].start
  <2>1. b \in 1 .. Len(batches) /\ b <= RingBatches /\ at \in Int /\ at # Floor
    BY <1>12, RingWithin, HistoryFacts
  <2>2. CASE b = n
    <3>1. at = start
      BY <2>2
    <3>2. Correction(over, start) = 0
      <4> HIDE DEF start, L
      <4>1. \A i \in 1 .. L : over[i].key # start
        BY <1>1, <1>2, <1>3
      <4>2. over \in Seq(Mark) /\ \A i \in 1 .. Len(over) : over[i].key # start
        BY <1>1, <4>1 DEF L
      <4> QED BY <4>2, CorrectionIs
    <3>3. r[Len(r)].key = start /\ r[Len(r)].late = late /\ Len(r) \in 1 .. Len(r)
      <4>1. Len(r) + s = L + 1 /\ Len(r) \in 1 .. Len(r)
        BY <1>1, <1>6
      <4> QED BY <1>4, <1>5, <1>6, <4>1
    <3>4. \A i \in 1 .. Len(r) : r[i].key = start => i = Len(r)
      <4>1. ASSUME NEW i \in 1 .. Len(r), r[i].key = start PROVE i = Len(r)
        <5>1. i + s \in 1 .. L + 1 /\ Len(r) + s \in 1 .. L + 1
          BY <1>6, <3>3
        <5>2. o[i + s].key = start /\ o[Len(r) + s].key = start
          BY <1>6, <3>3, <4>1
        <5>3. start # Floor
          BY <1>1, HistoryFacts
        <5>4. o[i + s].key = o[Len(r) + s].key /\ o[i + s].key # Floor
          BY <5>2, <5>3
        <5>5. i + s = Len(r) + s
          BY <1>11, <5>1, <5>4
        <5> QED BY <1>1, <1>6, <5>5
      <4> QED BY <4>1
    <3>5. Correction(r, start) = late
      BY <1>6, <3>3, <3>4, CorrectionIs
    <3> HIDE DEF start
    <3>6. ~(start - 0 <= consumed) /\ ~(start - late <= consumed)
      BY <1>1, HistoryFacts DEF start
    <3> QED BY <3>1, <3>2, <3>5, <3>6
  <2>3. CASE b # n
    <3>1. at # start
      <4>1. b < n \/ n < b
        BY <2>1, <2>3, HistoryFacts
      <4> QED BY <1>1, <2>1, <4>1, HistoryFacts
    <3>2. o[L + 1].key # at
      BY <1>4, <1>5, <3>1
    <3> HIDE DEF at, start
    <3>3. CASE \A i \in 1 .. L : over[i].key # at
      <4>1. \A i \in 1 .. L + 1 : o[i].key # at
        <5>1. ASSUME NEW i \in 1 .. L + 1 PROVE o[i].key # at
          <6>1. i = L + 1 \/ (i \in 1 .. L /\ o[i] = over[i])
            BY <1>1, <1>5
          <6> QED BY <3>2, <3>3, <6>1
        <5> QED BY <5>1
      <4>2. \A i \in 1 .. Len(r) : r[i].key # at
        BY <1>6, <4>1
      <4>3. Correction(over, at) = 0
        BY <1>1, <3>3, CorrectionIs
      <4>4. Correction(r, at) = 0
        BY <1>6, <4>2, CorrectionIs
      <4> QED BY <4>3, <4>4 DEF at
    <3>4. ASSUME NEW j \in 1 .. L, over[j].key = at
          PROVE  Correction(over, at) = Correction(r, at)
      <4>1. j \in 1 .. L + 1 /\ o[j] = over[j] /\ o[j].key = at /\ o[j].key # Floor
        BY <1>1, <1>5, <2>1, <3>4
      <4>2. \A i \in 1 .. L : over[i].key = at => i = j
        <5>1. ASSUME NEW i \in 1 .. L, over[i].key = at PROVE i = j
          <6>1. i \in 1 .. L + 1 /\ o[i].key = at
            BY <1>1, <1>5, <5>1
          <6> QED BY <1>11, <4>1, <6>1
        <5> QED BY <5>1
      <4>3. Correction(over, at) = over[j].late
        BY <1>1, <3>4, <4>2, CorrectionIs
      <4>4. j - s \in 1 .. Len(r)
        <5>1. ~(s = 1 /\ j = 1)
          <6> SUFFICES ASSUME s = 1, j = 1 PROVE FALSE
            OBVIOUS
          <6> DEFINE D == 2 .. Entries + 1
                     R == 1 .. b - 1
          <6>1. L = Entries /\ b \in Nat /\ b >= 1 /\ b <= Entries
            BY <1>7, <2>1, Constants
          <6>2. \A i \in D : \E k \in R : o[i].key = batches[k].start
            <7>1. ASSUME NEW i \in D PROVE \E k \in R : o[i].key = batches[k].start
              <8>1. i \in 1 .. L + 1 /\ 1 < i
                BY <1>1, <6>1
              <8>2. 1 \in 1 .. L + 1 /\ o[1].key = at
                BY <4>1
              <8>3. at < o[i].key
                BY <1>9, <2>1, <8>1, <8>2
              <8>4. o[i].key # Floor /\ o[i].key \in Int
                <9>1. Floor < at
                  BY <1>12, <2>1, HistoryFacts DEF at
                <9>2. o[i].key \in Int
                  BY <1>8, <8>1
                <9> QED BY <2>1, <8>3, <9>1, <9>2, HistoryFacts
              <8>5. Known(o[i].key)
                BY <1>8, <8>1, <8>4
              <8>6. ~(o[i].key < batches[b].start)
                BY <2>1, <8>3, <8>4 DEF at
              <8>7. PICK k \in 1 .. Len(batches) : o[i].key = batches[k].start
                BY <2>1, <8>5, <8>6 DEF Known
              <8>8. k < b
                <9>1. batches[b].start < batches[k].start
                  BY <8>3, <8>7 DEF at
                <9> QED BY <2>1, <9>1, HistoryFacts
              <8>9. k \in R
                BY <2>1, <8>8, HistoryFacts
              <8> QED BY <8>7, <8>9
            <7> QED BY <7>1
          <6> DEFINE f == [i \in D |-> CHOOSE k \in R : o[i].key = batches[k].start]
          <6>3. ASSUME NEW i \in D PROVE f[i] \in R /\ o[i].key = batches[f[i]].start
            BY <6>2
          <6>4. f \in [D -> R]
            BY <6>3
          <6>5. IsFiniteSet(D) /\ Cardinality(D) = Entries
            <7>1. 2 \in Int /\ Entries + 1 \in Int
              BY Constants
            <7>2. IsFiniteSet(D) /\ Cardinality(D) = IF 2 > Entries + 1 THEN 0 ELSE (Entries + 1) - 2 + 1
              BY <7>1, FS_Interval
            <7> HIDE DEF D
            <7> QED BY <7>2, Constants
          <6>6. IsFiniteSet(R) /\ Cardinality(R) = b - 1
            <7>1. 1 \in Int /\ b - 1 \in Int
              BY <6>1
            <7>2. IsFiniteSet(R) /\ Cardinality(R) = IF 1 > b - 1 THEN 0 ELSE (b - 1) - 1 + 1
              BY <7>1, FS_Interval
            <7> HIDE DEF R
            <7> QED BY <6>1, <7>2
          <6> HIDE DEF f
          <6>7. \A x \in D : x \in 1 .. L + 1 /\ 1 < x
            BY <1>1, <6>1
          <6> HIDE DEF D, R
          <6>8. Cardinality(R) < Cardinality(D)
            BY <6>1, <6>5, <6>6
          <6>9. PICK x, y \in D : x # y /\ f[x] = f[y]
            BY <6>4, <6>5, <6>6, <6>8, FS_PigeonHole
          <6>10. o[x].key = o[y].key
            BY <6>3, <6>9
          <6>11. o[x].key # Floor
            <7>1. at < o[x].key \/ o[1].key = Floor
              <8>1. 1 \in 1 .. L + 1 /\ o[1].key = at
                BY <4>1
              <8> QED BY <1>9, <6>7, <8>1
            <7>2. Floor < at /\ o[1].key = at
              BY <1>12, <2>1, <4>1, HistoryFacts DEF at
            <7>3. o[x].key \in Int
              BY <1>8, <6>7
            <7> QED BY <2>1, <7>1, <7>2, <7>3, HistoryFacts
          <6> QED BY <1>11, <6>7, <6>9, <6>10, <6>11
        <5> QED BY <1>1, <1>6, <5>1
      <4>5. r[j - s].key = at /\ r[j - s].late = over[j].late
        <5>1. (j - s) + s = j
          BY <1>1, <1>6
        <5> QED BY <1>6, <4>1, <4>4, <5>1
      <4>6. \A i \in 1 .. Len(r) : r[i].key = at => i = j - s
        <5>1. ASSUME NEW i \in 1 .. Len(r), r[i].key = at PROVE i = j - s
          <6>1. i + s \in 1 .. L + 1 /\ o[i + s].key = at
            BY <1>6, <5>1
          <6>2. i + s = j
            BY <1>11, <4>1, <6>1
          <6> QED BY <1>1, <1>6, <6>2
        <5> QED BY <5>1
      <4>7. Correction(r, at) = over[j].late
        <5> DEFINE k == j - s
        <5>1. /\ r \in Seq(Mark) /\ k \in 1 .. Len(r) /\ r[k].key = at /\ r[k].late = over[j].late
              /\ \A i \in 1 .. Len(r) : r[i].key = at => i = k
          BY <1>6, <4>4, <4>5, <4>6
        <5> HIDE DEF k
        <5>2. Correction(r, at) = r[k].late
          BY <5>1, CorrectionIs
        <5> QED BY <5>1, <5>2
      <4> QED BY <4>3, <4>7
    <3> QED BY <3>3, <3>4 DEF at
  <2> QED BY <2>2, <2>3
<1> QED BY <1>10, <1>12 DEF r

\* A batch with a mark of its own has that mark's correction.
LEMMA MarkedIs ==
    ASSUME HistoryInv, NEW over, NEW n, Ordered(over, n), NEW key \in Int, Floor < key,
           NEW j \in 1 .. Len(over), over[j].key = key
    PROVE  Correction(over, key) = over[j].late
<1>1. over \in Seq(Mark) /\ Len(over) \in Nat /\ Floor \in Int
  BY HistoryFacts DEF Ordered
<1>2. \A i \in 1 .. Len(over) : over[i].key = key => i = j
  <2>1. ASSUME NEW i \in 1 .. Len(over), over[i].key = key, i # j PROVE FALSE
    <3>1. over[i].key # Floor /\ ~(over[i].key < over[j].key) /\ ~(over[j].key < over[i].key)
          /\ over[j].key # Floor
      BY <1>1, <2>1
    <3>2. i < j \/ j < i
      BY <1>1, <2>1
    <3> QED BY <2>1, <3>1, <3>2 DEF Ordered
  <2> QED BY <2>1
<1> QED BY <1>1, <1>2, CorrectionIs

\* The batches still to walk have no mark.
LEMMA NotYetLate ==
    ASSUME HistoryInv, NEW over, NEW n \in Nat, Ordered(over, n), NEW i \in Int, i <= n
    PROVE  ~LateAt(over, i)
<1> SUFFICES ASSUME LateAt(over, i) PROVE FALSE
  OBVIOUS
<1>1. over \in Seq(Mark) /\ i \in 1 .. Len(batches) /\ Floor < batches[i].start
      /\ Correction(over, batches[i].start) # 0 /\ batches[i].start \in Int /\ Floor \in Int
  BY HistoryFacts DEF LateAt, Ordered
<1> DEFINE at == batches[i].start
<1>2. PICK j \in 1 .. Len(over) : over[j].key = at
  <2> HIDE DEF at
  <2>1. Correction(over, at) # 0
    BY <1>1 DEF at
  <2> QED BY <1>1, <2>1, CorrectionIs
<1>3. over[j].key # Floor
  BY <1>1, <1>2
<1>4. over[j].key < at
  BY <1>1, <1>3 DEF Ordered
<1> QED BY <1>1, <1>2, <1>4

\* A mark put in takes none to a batch that is behind it in the history.
LEMMA InsertLates ==
    ASSUME HistoryInv, NEW over, NEW n \in 1 .. Len(batches), Ordered(over, n), NEW late \in Nat,
           Floor < batches[n].start, NEW i \in Int, n < i,
           LateAt(Insert(over, batches[n].start, late), i)
    PROVE  LateAt(over, i)
<1> DEFINE start == batches[n].start
           at == batches[i].start
           m == [key |-> start, late |-> late]
           o == Append(over, m)
           r == Insert(over, start, late)
           L == Len(over)
<1>1. over \in Seq(Mark) /\ L \in Nat /\ start \in Int
  BY HistoryFacts DEF Ordered
<1>2. /\ i \in 1 .. Len(batches) /\ Floor < at /\ Correction(r, at) # 0
      /\ at \in Int /\ at < start
  BY HistoryFacts DEF LateAt
<1> HIDE DEF at
<1>3. m \in Mark /\ m.key = start
  BY <1>1 DEF Mark
<1> HIDE DEF m
<1>4. o \in Seq(Mark) /\ Len(o) = L + 1 /\ o[L + 1] = m /\ \A k \in 1 .. L : o[k] = over[k]
  BY <1>1, <1>3
<1> HIDE DEF o
<1>5. r = IF Len(o) > Entries THEN Tail(o) ELSE o
  BY DEF Insert, o, m
<1> HIDE DEF r
<1>6. r \in Seq(Mark)
  BY <1>4, <1>5
<1>7. PICK k \in 1 .. Len(r) : r[k].key = at /\ r[k].late = Correction(r, at)
  BY <1>2, <1>6, CorrectionIs
<1>8. PICK j \in 1 .. L + 1 : r[k] = o[j]
  <2>1. CASE Len(o) > Entries
    <3>1. Len(Tail(o)) = L /\ \A x \in 1 .. L : Tail(o)[x] = o[x + 1]
      BY <1>1, <1>4
    <3>2. r = Tail(o) /\ k \in 1 .. L
      BY <1>5, <2>1, <3>1
    <3>3. r[k] = o[k + 1] /\ k + 1 \in 1 .. L + 1
      BY <1>1, <3>1, <3>2
    <3> QED BY <3>3
  <2>2. CASE ~(Len(o) > Entries)
    BY <1>4, <1>5, <1>7, <2>2
  <2> QED BY <2>1, <2>2
<1>9. j # L + 1
  BY <1>2, <1>3, <1>4, <1>7, <1>8
<1>10. j \in 1 .. L /\ over[j].key = at /\ over[j].late = Correction(r, at)
  BY <1>1, <1>4, <1>7, <1>8, <1>9
<1>11. Correction(over, at) = over[j].late
  BY <1>1, <1>2, <1>10, MarkedIs
<1>12. Correction(over, at) # 0
  BY <1>2, <1>10, <1>11
<1> QED BY <1>2, <1>12 DEF LateAt, at

\* The walk takes a correction in a run of two at most: the third late reading drops the chain.
LEMMA RunsGoOn ==
    ASSUME HistoryInv, NEW over, NEW c \in Chain, NEW n \in 1 .. Len(batches), Runs(over, c, n),
           NEW over2, NEW c2 \in Chain,
           \A i \in Int : n < i /\ LateAt(over2, i) => LateAt(over, i),
           LateAt(over2, n) => c.valid /\ c2.lateRun = c.lateRun + 1 /\ c2.lateRun < LateRunLimit
    PROVE  Runs(over2, c2, n - 1)
<1>1. n \in Nat /\ n >= 1 /\ Len(batches) \in Nat /\ (n - 1) + 1 = n /\ (n - 1) + 2 = n + 1
      /\ n + 1 \in Int /\ n + 2 \in Int /\ n < n + 1 /\ n < n + 2 /\ c.lateRun \in Nat
  BY HistoryFacts DEF Chain
<1>2. LateAt(over2, n + 1) => LateAt(over, n + 1)
  BY <1>1
<1>3. LateAt(over2, n + 2) => LateAt(over, n + 2)
  BY <1>1
<1>4. LateAt(over2, n) /\ LateAt(over2, n + 1) => c.lateRun >= 1
  BY <1>2 DEF Runs
<1>5. LateAt(over2, n) /\ LateAt(over2, n + 1) /\ LateAt(over2, n + 2) => c.lateRun >= 2
  BY <1>2, <1>3 DEF Runs
<1>6. LateAt(over2, n) => c2.lateRun >= 1 /\ (LateAt(over2, n + 1) => c2.lateRun >= 2)
  BY <1>1, <1>4
<1>7. ~(LateAt(over2, n) /\ LateAt(over2, n + 1) /\ LateAt(over2, n + 2))
  BY <1>1, <1>5 DEF LateRunLimit
<1>8. ASSUME NEW i \in 1 .. Len(batches), i > n - 1
      PROVE  ~(LateAt(over2, i) /\ LateAt(over2, i + 1) /\ LateAt(over2, i + 2))
  <2>1. CASE i = n
    BY <1>7, <2>1
  <2>2. CASE i # n
    <3>1. i > n /\ n < i + 1 /\ n < i + 2 /\ i \in Int /\ i + 1 \in Int /\ i + 2 \in Int /\ n < i
      BY <1>1, <1>8, <2>2
    <3>2. ~(LateAt(over, i) /\ LateAt(over, i + 1) /\ LateAt(over, i + 2))
      BY <1>8, <3>1 DEF Runs
    <3>3. LateAt(over2, i) => LateAt(over, i)
      BY <3>1
    <3>4. LateAt(over2, i + 1) => LateAt(over, i + 1)
      BY <3>1
    <3>5. LateAt(over2, i + 2) => LateAt(over, i + 2)
      BY <3>1
    <3> QED BY <3>2, <3>3, <3>4, <3>5
  <2> QED BY <2>1, <2>2
<1>9. LateAt(over2, (n - 1) + 1) = LateAt(over2, n) /\ LateAt(over2, (n - 1) + 2) = LateAt(over2, n + 1)
  BY <1>1
<1> QED BY <1>6, <1>8, <1>9 DEF Runs

-----------------------------------------------------------------------------
(* The walk.                                                               *)

\* As far as the ring's batches go that are ahead of the target, two overlays agree on the side of
\* the target they move each to.
Agree(a, b) ==
    \A i \in InRing :
        consumed < batches[i].start =>
            (batches[i].start - Correction(a, batches[i].start) <= consumed
             <=> batches[i].start - Correction(b, batches[i].start) <= consumed)

\* A walk that has m batches left to visit at most, but for those it stopped at.
Walking(w, m) ==
    /\ w \in [behind : Nat, chain : Chain, over : Seq(Mark), stopped : BOOLEAN]
    /\ w.behind <= Len(batches) /\ w.behind >= m /\ (w.behind = m \/ w.stopped)
    /\ Ordered(w.over, w.behind) /\ Agree(overlay, w.over) /\ Runs(w.over, w.chain, w.behind)

FlipsKnown == flips \subseteq Int /\ IsFiniteSet(flips)

LEMMA FlipsFinite == ASSUME HistoryInv PROVE FlipsKnown
<1>1. Floor \in Int /\ Period \in Int
  BY HistoryFacts
<1>2. IsFiniteSet(Floor .. Period) /\ flips \in SUBSET (Floor .. Period)
  BY <1>1, FS_Interval DEF HistoryInv
<1>3. IsFiniteSet(flips)
  BY <1>2, FS_Subset
<1> QED BY <1>1, <1>2, <1>3 DEF FlipsKnown

LEMMA OfferKeeps ==
    ASSUME HistoryInv, NEW m \in Nat \ {0}, NEW w, Walking(w, m), ~w.stopped, NEW calm \in BOOLEAN,
           NEW target \in Int, consumed <= target
    PROVE  Walking(Offer(w, calm, target), m - 1)
<1> DEFINE n == w.behind
           start == Entry(n).start
           got == MeasureLateness(flips, w.chain, start, Window)
           takes == Taken(start, got.late, calm, target)
           over == IF takes THEN Insert(w.over, start, got.late) ELSE w.over
<1>1. /\ w \in [behind : Nat, chain : Chain, over : Seq(Mark), stopped : BOOLEAN]
      /\ n = m /\ n \in 1 .. Len(batches) /\ Ordered(w.over, n) /\ Agree(overlay, w.over)
      /\ Runs(w.over, w.chain, n)
  BY HistoryFacts DEF Walking
<1>2. start = batches[n].start /\ start \in Int
  <2>1. n <= History
    BY <1>1, HistoryFacts, Constants DEF HistoryInv
  <2> QED BY <1>1, <2>1, HistoryFacts DEF Entry
<1> HIDE DEF start
<1>3. got.chain \in Chain /\ got.late \in Nat /\ Reads(w.chain, got)
  <2>1. w.chain \in Chain /\ flips \subseteq Int /\ IsFiniteSet(flips)
    BY <1>1, FlipsFinite DEF FlipsKnown
  <2> QED BY <1>2, <2>1, LateType, LateReads
<1> HIDE DEF got
<1>4. Ordered(over, n - 1) /\ Agree(w.over, over)
  <2>1. CASE takes
    <3>1. target < start /\ target < start - got.late
      BY <1>2, <1>3, <2>1 DEF Taken
    <3> DEFINE late == got.late
    <3>2. late \in Nat /\ target < batches[n].start /\ target < batches[n].start - late
      BY <1>2, <1>3, <3>1
    <3> HIDE DEF late
    <3>3. /\ Ordered(Insert(w.over, batches[n].start, late), n - 1)
          /\ Agree(w.over, Insert(w.over, batches[n].start, late))
      BY <1>1, <3>2, InsertKeeps DEF Agree
    <3> QED BY <1>2, <2>1, <3>3 DEF late
  <2>2. CASE ~takes
    <3>1. \A k \in 1 .. Len(batches) : k <= n - 1 => k <= n
      BY <1>1
    <3>2. Ordered(w.over, n - 1)
      BY <1>1, <3>1 DEF Ordered
    <3>3. over = w.over
      BY <2>2
    <3> QED BY <3>2, <3>3 DEF Agree
  <2> QED BY <2>1, <2>2
<1>5. Agree(overlay, over)
  BY <1>1, <1>4 DEF Agree
<1>6. over \in Seq(Mark)
  BY <1>4 DEF Ordered
<1>9. Runs(over, got.chain, n - 1)
  <2>1. ~LateAt(w.over, n)
    <3>1. n \in Nat /\ n \in Int /\ n <= n
      BY <1>1
    <3> HIDE DEF n
    <3> QED BY <1>1, <3>1, NotYetLate
  <2>2. CASE takes
    <3> DEFINE late == got.late
    <3>1. /\ late # 0 /\ late \in Nat /\ over = Insert(w.over, batches[n].start, late)
          /\ Floor < batches[n].start
      <4>1. target < start /\ got.late # 0
        BY <2>2 DEF Taken
      <4> QED BY <1>2, <1>3, <2>2, <4>1, HistoryFacts
    <3>2. got.chain.lateRun = w.chain.lateRun + 1 /\ got.chain.lateRun < LateRunLimit
          /\ w.chain.valid
      BY <1>3, <3>1 DEF Reads
    <3> HIDE DEF over, late, n
    <3>3. ASSUME NEW i \in Int, n < i, LateAt(over, i) PROVE LateAt(w.over, i)
      BY <1>1, <3>1, <3>3, InsertLates
    <3>4. w.chain \in Chain
      BY <1>1
    <3> QED BY <1>1, <1>3, <3>2, <3>3, <3>4, RunsGoOn
  <2>3. CASE ~takes
    <3>1. over = w.over
      BY <2>3
    <3>2. w.chain \in Chain
      BY <1>1
    <3> HIDE DEF over, n
    <3> QED BY <1>1, <1>3, <2>1, <3>1, <3>2, RunsGoOn
  <2> QED BY <2>2, <2>3
<1> HIDE DEF over
<1> DEFINE o == Offer(w, calm, target)
<1>7. CASE got.pending
  <2>1. o = [w EXCEPT !.chain = got.chain, !.stopped = TRUE]
    BY <1>7 DEF Offer, start, got
  <2> HIDE DEF o
  <2>2. o \in [behind : Nat, chain : Chain, over : Seq(Mark), stopped : BOOLEAN]
    BY <1>1, <1>3, <2>1
  <2>3. o.behind = n /\ o.over = w.over /\ o.stopped
    BY <1>1, <2>1
  <2>4. n <= Len(batches) /\ n >= m - 1
    BY <1>1
  <2>6. Runs(w.over, got.chain, n)
    <3>1. got.chain.lateRun = w.chain.lateRun /\ got.chain.valid = w.chain.valid
      BY <1>3, <1>7 DEF Reads
    <3> HIDE DEF n
    <3> QED BY <1>1, <3>1 DEF Runs
  <2>7. o.chain = got.chain
    BY <1>1, <2>1
  <2> HIDE DEF n
  <2>5. Walking(o, m - 1)
    BY <1>1, <2>2, <2>3, <2>4, <2>6, <2>7 DEF Walking
  <2> QED BY <2>5 DEF o
<1>8. CASE ~got.pending
  <2>1. o = [w EXCEPT !.chain = got.chain, !.behind = n - 1, !.over = over]
    BY <1>8 DEF Offer, start, got, over
  <2> HIDE DEF o
  <2>2. n - 1 \in Nat
    BY <1>1
  <2>3. o.behind = n - 1 /\ o.over = over /\ o.chain = got.chain
    BY <1>1, <2>1
  <2>4. o \in [behind : Nat, chain : Chain, over : Seq(Mark), stopped : BOOLEAN]
    BY <1>1, <1>3, <1>6, <2>1, <2>2
  <2>5. n - 1 <= Len(batches) /\ n - 1 = m - 1 /\ m - 1 >= m - 1
    BY <1>1
  <2> HIDE DEF n
  <2>6. Walking(o, m - 1)
    BY <1>4, <1>5, <1>9, <2>3, <2>4, <2>5 DEF Walking
  <2> QED BY <2>6 DEF o
<1> QED BY <1>7, <1>8

\* A walk left behind skips to where the history still is, and one that is not is inside it.
LEMMA StartsWell ==
    ASSUME FenceInv
    PROVE  Walking(Started, Started.behind) /\ Started.behind \in Nat
<1>1. /\ HistoryInv /\ Ordered(overlay, behind) /\ overlay \in Seq(Mark) /\ chain \in Chain
      /\ behind \in Nat /\ Runs(overlay, chain, behind)
  BY DEF FenceInv, HistoryInv, Ordered
<1> DEFINE n == IF Lapped THEN Margin ELSE behind
           ch == IF Lapped THEN FreshChain ELSE chain
<1>2. n \in Nat /\ n <= behind /\ n <= Len(batches)
  BY <1>1, HistoryFacts, Constants DEF Lapped, HistoryInv
<1>3. ch \in Chain
  <2>1. FreshChain \in Chain
    <3> DEFINE none == 0
               no == <<>>
    <3>1. none \in Int /\ none \in Nat /\ no \in Seq(Int)
      OBVIOUS
    <3>2. FreshChain = [anchor |-> none, anchorBatch |-> none, seen |-> none, any |-> FALSE,
                        valid |-> FALSE, warmup |-> none, lateRun |-> none, gaps |-> no]
      BY DEF FreshChain
    <3> HIDE DEF none, no
    <3> QED BY <3>1, <3>2 DEF Chain
  <2> QED BY <1>1, <2>1
<1>4. Ordered(overlay, n)
  <2>1. \A k \in 1 .. Len(batches) : k <= n => k <= behind
    BY <1>1, <1>2
  <2> HIDE DEF n
  <2> QED BY <1>1, <2>1 DEF Ordered
<1>9. Runs(overlay, ch, n)
  <2>1. CASE Lapped
    <3>1. ~ch.valid
      BY <2>1 DEF FreshChain
    <3> HIDE DEF n, ch
    <3>2. ASSUME NEW i \in 1 .. Len(batches), i > n
          PROVE  ~(LateAt(overlay, i) /\ LateAt(overlay, i + 1) /\ LateAt(overlay, i + 2))
      <4>1. CASE i <= behind
        <5>1. ~LateAt(overlay, i)
          BY <1>1, <4>1, NotYetLate
        <5> QED BY <5>1
      <4>2. CASE ~(i <= behind)
        <5>1. i > behind
          BY <1>1, <4>2, HistoryFacts
        <5> QED BY <1>1, <5>1 DEF Runs
      <4> QED BY <4>1, <4>2
    <3> QED BY <3>1, <3>2 DEF Runs
  <2>2. CASE ~Lapped
    BY <1>1, <2>2
  <2> QED BY <2>1, <2>2
<1> HIDE DEF n, ch
<1> DEFINE w == Started
<1>5. w = [behind |-> n, chain |-> ch, over |-> overlay, stopped |-> FALSE]
  BY DEF Started, n, ch
<1> HIDE DEF w
<1>6. /\ w \in [behind : Nat, chain : Chain, over : Seq(Mark), stopped : BOOLEAN]
      /\ w.behind = n /\ w.over = overlay /\ w.chain = ch
  BY <1>1, <1>2, <1>3, <1>5
<1>7. Agree(overlay, overlay)
  BY DEF Agree
<1>8. Walking(w, w.behind) /\ w.behind \in Nat
  BY <1>2, <1>4, <1>6, <1>7, <1>9 DEF Walking
<1> QED BY <1>8 DEF w

\* The walk of a present is defined, and ends with no batch left but for those it stopped at.
LEMMA WalkedKeeps ==
    ASSUME FenceInv, NEW calm \in BOOLEAN, NEW target \in Int, consumed <= target
    PROVE  \E m \in Nat : Walking(Walked(calm, target), m)
<1> DEFINE first == Started
           m == first.behind
           Next1(w) == IF w.stopped THEN w ELSE Offer(w, calm, target)
           Is(f, k) == f = [n \in 0 .. k |-> IF n = 0 THEN first ELSE Next1(f[n - 1])]
<1>1. HistoryInv /\ Walking(first, m) /\ m \in Nat
  BY StartsWell DEF FenceInv
<1> HIDE DEF first, m, Next1
<1>2. \E f : Is(f, m)
  <2> DEFINE Fails == {k \in 0 .. m : ~\E f : Is(f, k)}
  <2> SUFFICES ASSUME Fails # {} PROVE FALSE
    <3>1. m \in 0 .. m
      BY <1>1
    <3> QED BY <3>1
  <2>1. PICK k \in Fails : \A j \in Fails : k <= j
    <3>1. Fails \subseteq Nat
      BY <1>1
    <3> HIDE DEF Fails
    <3> QED BY <3>1, LeastOne
  <2>2. k \in 0 .. m /\ ~\E f : Is(f, k)
    BY <2>1
  <2>3. k # 0
    <3> DEFINE f == [n \in 0 .. 0 |-> first]
    <3>1. Is(f, 0)
      <4>1. f = [n \in 0 .. 0 |-> IF n = 0 THEN first ELSE Next1(f[n - 1])]
        OBVIOUS
      <4> QED BY <4>1
    <3> QED BY <2>2, <3>1
  <2>4. k - 1 \in 0 .. m /\ ~(k <= k - 1) /\ k \in Nat \ {0}
    BY <1>1, <2>2, <2>3
  <2>5. PICK f : Is(f, k - 1)
    BY <2>1, <2>4
  <2> DEFINE g == [n \in 0 .. k |-> IF n = k THEN Next1(f[k - 1]) ELSE f[n]]
  <2>6. ASSUME NEW n \in 0 .. k
        PROVE  g[n] = IF n = 0 THEN first ELSE Next1(g[n - 1])
    <3>1. CASE n = 0
      <4>1. g[0] = f[0] /\ 0 \in 0 .. k - 1
        BY <2>4
      <4>2. f[0] = first
        BY <2>5, <4>1
      <4> QED BY <3>1, <4>1, <4>2
    <3>2. CASE n = k
      <4>1. g[n] = Next1(f[k - 1]) /\ g[k - 1] = f[k - 1]
        BY <2>4, <3>2
      <4> HIDE DEF g
      <4> QED BY <2>4, <3>2, <4>1
    <3>3. CASE n # 0 /\ n # k
      <4>1. n \in 0 .. k - 1 /\ n - 1 \in 0 .. k /\ n - 1 # k
        BY <2>4, <3>3
      <4>2. g[n] = f[n] /\ g[n - 1] = f[n - 1]
        BY <3>3, <4>1
      <4>3. f[n] = IF n = 0 THEN first ELSE Next1(f[n - 1])
        BY <2>5, <4>1
      <4> HIDE DEF g
      <4> QED BY <3>3, <4>2, <4>3
    <3> QED BY <3>1, <3>2, <3>3
  <2>7. Is(g, k)
    <3>1. g = [n \in 0 .. k |-> g[n]]
      OBVIOUS
    <3> HIDE DEF g
    <3>2. [n \in 0 .. k |-> g[n]] = [n \in 0 .. k |-> IF n = 0 THEN first ELSE Next1(g[n - 1])]
      BY <2>6
    <3> QED BY <3>1, <3>2
  <2> QED BY <2>2, <2>7
<1> DEFINE walk == CHOOSE f : Is(f, m)
<1>3. Is(walk, m)
  BY <1>2
<1>4. Walked(calm, target) = walk[m]
  BY DEF Walked, m, first, Next1
<1> HIDE DEF walk
<1>5. \A n \in 0 .. m : walk[n] = IF n = 0 THEN first ELSE Next1(walk[n - 1])
  BY <1>3
<1> DEFINE Fails == {n \in 0 .. m : ~Walking(walk[n], m - n)}
<1>6. Fails = {}
  <2> SUFFICES ASSUME Fails # {} PROVE FALSE
    OBVIOUS
  <2>1. PICK k \in Fails : \A j \in Fails : k <= j
    <3>1. Fails \subseteq Nat
      BY <1>1
    <3> HIDE DEF Fails
    <3> QED BY <3>1, LeastOne
  <2>2. k \in 0 .. m /\ ~Walking(walk[k], m - k)
    BY <2>1
  <2>3. k # 0
    <3>1. walk[0] = first /\ m - 0 = m
      BY <1>1, <1>5
    <3> QED BY <1>1, <2>2, <3>1
  <2>4. /\ k - 1 \in 0 .. m /\ ~(k <= k - 1) /\ k \in Nat \ {0}
        /\ m - (k - 1) \in Nat \ {0} /\ (m - (k - 1)) - 1 = m - k
    BY <1>1, <2>2, <2>3
  <2> DEFINE w == walk[k - 1]
  <2>5. Walking(w, m - (k - 1))
    BY <2>1, <2>4
  <2>6. walk[k] = Next1(w)
    BY <1>5, <2>2, <2>3
  <2> HIDE DEF w
  <2> DEFINE left == m - (k - 1)
  <2>7. left \in Nat \ {0} /\ left - 1 = m - k /\ Walking(w, left)
    BY <2>4, <2>5
  <2> HIDE DEF left
  <2>8. CASE w.stopped
    <3>1. walk[k] = w
      BY <2>6, <2>8 DEF Next1
    <3>2. Walking(w, left - 1)
      <4>1. w.behind \in Nat
        BY <2>7 DEF Walking
      <4>2. w.behind >= left - 1
        BY <2>7, <4>1 DEF Walking
      <4> QED BY <2>7, <2>8, <4>2 DEF Walking
    <3> QED BY <2>2, <2>7, <3>1, <3>2
  <2>9. CASE ~w.stopped
    <3>1. walk[k] = Offer(w, calm, target)
      BY <2>6, <2>9 DEF Next1
    <3>2. Walking(Offer(w, calm, target), left - 1)
      BY <1>1, <2>7, <2>9, OfferKeeps
    <3> QED BY <2>2, <2>7, <3>1, <3>2
  <2> QED BY <2>8, <2>9
<1>7. Walking(walk[m], m - m)
  <2>1. m \in 0 .. m
    BY <1>1
  <2> QED BY <1>6, <2>1
<1>8. m - m = 0
  BY <1>1
<1>9. Walking(walk[m], 0)
  BY <1>7, <1>8
<1>10. 0 \in Nat
  OBVIOUS
<1> QED BY <1>4, <1>9, <1>10

-----------------------------------------------------------------------------
(* The steps.                                                              *)

LEMMA Products == ASSUME NEW a \in Nat \ {0}, NEW b \in Nat \ {0} PROVE a * b \in Nat \ {0}
OBVIOUS

\* A batch more makes the history begin anew, with everything a while further back.
LEMMA HistoryGrows ==
    ASSUME HistoryInv, NEW late \in Int, NEW gap \in Nat \ {0}, OpenBatch(late, gap)
    PROVE  /\ gap * Period \in Nat \ {0} /\ Floor' = Floor /\ Period' = Period
           /\ batches' \in Seq(Batch)
           /\ Len(batches') = IF Len(batches) < History THEN Len(batches) + 1 ELSE History
           /\ batches'[1].start = late
           /\ \A i \in 1 .. Len(batches') :
                 i > 1 => /\ i - 1 \in 1 .. Len(batches)
                          /\ batches'[i].start = batches[i - 1].start - gap * Period
           /\ batches # <<>> => late > batches[1].start - gap * Period
<1> DEFINE d == gap * Period
           old == [i \in DOMAIN batches |-> [start |-> batches[i].start - d,
                                             own |-> batches[i].own - d]]
           new == [start |-> late, own |-> 0]
           all == <<new>> \o old
           L == Len(batches)
           most == IF L < History THEN L + 1 ELSE History
<1>1. d \in Nat \ {0} /\ L \in Nat /\ L <= History /\ batches \in Seq(Batch)
  BY HistoryFacts, Products DEF HistoryInv
<1>2. Floor' = Floor /\ Period' = Period
  BY DEF OpenBatch, Floor, Period
<1> HIDE DEF d
<1>3. old \in Seq(Batch) /\ Len(old) = L /\ \A i \in 1 .. L : old[i].start = batches[i].start - d
  <2>1. DOMAIN batches = 1 .. L
    BY <1>1
  <2>2. ASSUME NEW i \in 1 .. L
        PROVE  [start |-> batches[i].start - d, own |-> batches[i].own - d] \in Batch
    <3>1. batches[i] \in Batch
      BY <1>1, <2>2
    <3> QED BY <1>1, <3>1 DEF Batch
  <2>3. old \in [1 .. L -> Batch]
    BY <2>1, <2>2
  <2>4. \A i \in 1 .. L : old[i].start = batches[i].start - d
    BY <2>1
  <2> HIDE DEF old
  <2>5. old \in Seq(Batch)
    BY <1>1, <2>3, SeqDef
  <2>6. Len(old) = L
    BY <1>1, <2>3, <2>5
  <2> QED BY <2>4, <2>5, <2>6
<1>4. Len(old) = Len(batches) /\ (old # <<>> <=> batches # <<>>)
  BY <1>1, <1>3
<1>5. batches' = SubSeq(all, 1, most) /\ (old # <<>> => late > old[1].start)
  <2>1. Len(old) = L
    BY <1>3
  <2>2. most = IF Len(old) < History THEN Len(old) + 1 ELSE History
    BY <2>1
  <2> HIDE DEF most
  <2> QED BY <2>2 DEF OpenBatch, d
<1> HIDE DEF old
<1>6. new \in Batch /\ new.start = late
  BY DEF Batch
<1> HIDE DEF new
<1>7. /\ all \in Seq(Batch) /\ Len(all) = L + 1 /\ all[1] = new
      /\ \A i \in 1 .. L + 1 : i > 1 => i - 1 \in 1 .. L /\ all[i] = old[i - 1]
  <2>1. <<new>> \in Seq(Batch) /\ Len(<<new>>) = 1
    BY <1>6
  <2>2. all \in Seq(Batch) /\ Len(all) = L + 1
    BY <1>1, <1>3, <2>1
  <2>3. all[1] = new
    BY <1>1, <1>3, <2>1
  <2>4. ASSUME NEW i \in 1 .. L + 1, i > 1 PROVE i - 1 \in 1 .. L /\ all[i] = old[i - 1]
    BY <1>1, <1>3, <2>1, <2>4
  <2> QED BY <2>2, <2>3, <2>4
<1> HIDE DEF all
<1>8. most \in 1 .. L + 1
  BY <1>1, Constants
<1> DEFINE cut == SubSeq(all, 1, most)
<1>9. cut \in Seq(Batch) /\ Len(cut) = most /\ \A i \in 1 .. most : cut[i] = all[i]
  <2> HIDE DEF most
  <2>1. \A i \in 1 .. most : all[i] \in Batch
    BY <1>1, <1>7, <1>8
  <2>2. most \in Nat
    BY <1>1, <1>8
  <2>3. cut = [i \in 1 .. most |-> all[i]]
    BY <1>1, <1>7, <1>8, <2>2
  <2> HIDE DEF cut
  <2>4. cut \in [1 .. most -> Batch]
    BY <2>1, <2>3
  <2>5. cut \in Seq(Batch)
    BY <2>2, <2>4, SeqDef
  <2> QED BY <2>2, <2>3, <2>4, <2>5
<1> HIDE DEF cut, most
<1>10. batches' = cut
  BY <1>5 DEF cut
<1>11. Len(batches') = most /\ batches' \in Seq(Batch) /\ batches'[1].start = late
  BY <1>1, <1>6, <1>7, <1>8, <1>9, <1>10
<1>12. \A i \in 1 .. most : i > 1 => i - 1 \in 1 .. L /\ batches'[i].start = batches[i - 1].start - d
  <2>1. ASSUME NEW i \in 1 .. most, i > 1
        PROVE  i - 1 \in 1 .. L /\ batches'[i].start = batches[i - 1].start - d
    <3>1. i \in 1 .. L + 1 /\ batches'[i] = all[i]
      BY <1>1, <1>8, <1>9, <1>10, <2>1
    <3>2. i - 1 \in 1 .. L /\ all[i] = old[i - 1]
      BY <1>7, <2>1, <3>1
    <3> QED BY <1>3, <3>1, <3>2
  <2> QED BY <2>1
<1>13. batches # <<>> => late > batches[1].start - d
  <2>1. batches # <<>> => 1 \in 1 .. L
    BY <1>1
  <2> QED BY <1>3, <1>4, <1>5, <2>1
<1> QED BY <1>1, <1>2, <1>11, <1>12, <1>13 DEF d, most

\* The marks move back with the history, and one that has fallen behind the floor stays there.
LEMMA OverlayPasses ==
    ASSUME FenceInv, NEW late \in Int, NEW gap \in Nat \ {0}, OpenBatch(late, gap)
    PROVE  /\ Ordered(overlay, behind)' /\ Len(overlay') = Len(overlay)
           /\ \A i \in 1 .. Len(overlay) :
                 /\ overlay[i].key \in Int /\ overlay'[i].late = overlay[i].late
                 /\ overlay'[i].key # Floor => overlay'[i].key = overlay[i].key - gap * Period
<1> DEFINE d == gap * Period
           L == Len(overlay)
<1>1. /\ HistoryInv /\ Ordered(overlay, behind)
      /\ overlay \in Seq(Mark) /\ L \in Nat /\ L <= Entries /\ behind' = behind + 1 /\ behind \in Nat
  <2>1. HistoryInv /\ Ordered(overlay, behind)
    BY DEF FenceInv
  <2>2. overlay \in Seq(Mark) /\ L <= Entries
    BY <2>1 DEF Ordered
  <2>3. behind \in Nat
    BY <2>1 DEF HistoryInv
  <2>4. behind' = behind + 1
    BY DEF OpenBatch
  <2> QED BY <2>1, <2>2, <2>3, <2>4
<1>2. /\ d \in Nat \ {0} /\ Floor' = Floor /\ Floor \in Int /\ batches' \in Seq(Batch)
      /\ Len(batches) \in Nat /\ Len(batches') \in Nat /\ Len(batches') >= 1
      /\ Len(batches') >= Len(batches) \/ Len(batches') = History
      /\ batches'[1].start = late
      /\ \A i \in 1 .. Len(batches') :
            i > 1 => i - 1 \in 1 .. Len(batches) /\ batches'[i].start = batches[i - 1].start - d
      /\ batches # <<>> => late > batches[1].start - d
      /\ Len(batches') = IF Len(batches) < History THEN Len(batches) + 1 ELSE History
  <2>1. Len(batches) \in Nat /\ Floor \in Int
    BY <1>1, HistoryFacts
  <2> HIDE DEF d
  <2>2. /\ d \in Nat \ {0} /\ Floor' = Floor /\ batches' \in Seq(Batch)
        /\ Len(batches') = IF Len(batches) < History THEN Len(batches) + 1 ELSE History
        /\ batches'[1].start = late
        /\ \A i \in 1 .. Len(batches') :
              i > 1 => i - 1 \in 1 .. Len(batches) /\ batches'[i].start = batches[i - 1].start - d
        /\ batches # <<>> => late > batches[1].start - d
    BY <1>1, HistoryGrows DEF d
  <2>3. Len(batches') \in Nat /\ Len(batches') >= 1
    BY <2>1, <2>2, Constants
  <2> QED BY <2>1, <2>2, <2>3
<1>3. overlay' = [i \in 1 .. L |-> [overlay[i] EXCEPT !.key = Later(@, d)]]
  <2>1. DOMAIN overlay = 1 .. L
    BY <1>1
  <2> QED BY <2>1 DEF OpenBatch, Pass
<1> HIDE DEF d
<1>4. ASSUME NEW i \in 1 .. L
      PROVE  /\ overlay[i].key \in Int /\ overlay[i].late \in Nat
             /\ overlay'[i] \in Mark /\ overlay'[i].key = Later(overlay[i].key, d)
             /\ overlay'[i].late = overlay[i].late
  <2>1. overlay[i] \in Mark
    BY <1>1
  <2>2. overlay[i].key \in Int
    BY <2>1 DEF Mark
  <2>3. Later(overlay[i].key, d) \in Int
    BY <1>2, <2>2 DEF Later
  <2> DEFINE k == Later(overlay[i].key, d)
  <2>4. overlay'[i] = [overlay[i] EXCEPT !.key = k]
    BY <1>3
  <2> HIDE DEF k
  <2>5. k \in Int
    BY <2>3 DEF k
  <2>6. overlay'[i] \in Mark /\ overlay'[i].key = k /\ overlay'[i].late = overlay[i].late
    BY <2>1, <2>4, <2>5 DEF Mark
  <2> QED BY <2>1, <2>6 DEF Mark, k
<1>5. overlay' \in Seq(Mark) /\ Len(overlay') = L
  <2>1. overlay' \in [1 .. L -> Mark]
    BY <1>3, <1>4
  <2>2. overlay' \in Seq(Mark)
    BY <1>1, <2>1, SeqDef
  <2> QED BY <1>1, <2>1, <2>2
<1>6. ASSUME NEW i \in 1 .. L
      PROVE  /\ Floor <= overlay'[i].key
             /\ overlay'[i].key # Floor =>
                   overlay'[i].key = overlay[i].key - d /\ overlay[i].key # Floor
  <2> DEFINE key == overlay[i].key
             now == overlay'[i].key
  <2>1. Floor <= key
    BY <1>1 DEF Ordered
  <2>2. key \in Int /\ now = IF key - d < Floor THEN Floor ELSE key - d
    BY <1>4 DEF Later
  <2>3. d \in Nat \ {0} /\ Floor \in Int
    BY <1>2
  <2> HIDE DEF key, now
  <2>4. Floor <= now /\ (now # Floor => now = key - d /\ key # Floor)
    BY <2>1, <2>2, <2>3
  <2> QED BY <2>4 DEF key, now
<1>7. ASSUME NEW i \in 1 .. L, NEW j \in 1 .. L, i < j
      PROVE  overlay'[i].key < overlay'[j].key \/ overlay'[i].key = Floor
  <2>1. overlay[i].key < overlay[j].key \/ overlay[i].key = Floor
    BY <1>1, <1>7 DEF Ordered
  <2>2. overlay[i].key \in Int /\ overlay[j].key \in Int
    BY <1>4
  <2> DEFINE a == overlay[i].key
             b == overlay[j].key
  <2>3. /\ overlay'[i].key = IF a - d < Floor THEN Floor ELSE a - d
        /\ overlay'[j].key = IF b - d < Floor THEN Floor ELSE b - d
    BY <1>4 DEF Later
  <2>4. d \in Nat \ {0} /\ Floor \in Int
    BY <1>2
  <2> HIDE DEF a, b
  <2> DEFINE u == overlay'[i].key
             v == overlay'[j].key
  <2> HIDE DEF u, v
  <2>5. u < v \/ u = Floor
    BY <2>1, <2>2, <2>3, <2>4 DEF a, b, u, v
  <2> QED BY <2>5 DEF u, v
<1>8. ASSUME NEW i \in 1 .. L, overlay'[i].key # Floor
      PROVE  /\ Known(overlay[i].key)'
             /\ \A k \in 1 .. Len(batches') : k <= behind' => overlay'[i].key < batches'[k].start
  <2> DEFINE key == overlay[i].key
  <2>1. key \in Int /\ overlay'[i].key = key - d /\ key # Floor
    BY <1>4, <1>6, <1>8
  <2>2. Known(key) /\ \A k \in 1 .. Len(batches) : k <= behind => key < batches[k].start
    BY <1>1, <2>1 DEF Ordered
  <2> HIDE DEF key
  <2>3. batches # <<>> /\ 1 \in 1 .. Len(batches)
    <3>1. batches \in Seq(Batch)
      BY <1>1 DEF HistoryInv
    <3> QED BY <2>2, <3>1 DEF Known
  <2>4. \A k \in 1 .. Len(batches) : batches[k].start \in Int
    BY <1>1, HistoryFacts
  <2>5. key <= batches[1].start
    <3>1. CASE \E k \in 1 .. Len(batches) : key = batches[k].start
      <4>1. PICK k \in 1 .. Len(batches) : key = batches[k].start
        BY <3>1
      <4>2. CASE k = 1
        BY <2>4, <4>1, <4>2
      <4>3. CASE k # 1
        <5>1. 1 < k
          BY <1>2, <4>3
        <5>2. batches[k].start < batches[1].start
          BY <1>1, <2>3, <5>1, HistoryFacts
        <5> QED BY <2>3, <2>4, <4>1, <5>2
      <4> QED BY <4>2, <4>3
    <3>2. CASE \A k \in 1 .. Len(batches) : key < batches[k].start
      BY <2>1, <2>3, <2>4, <3>2
    <3> QED BY <2>2, <3>1, <3>2 DEF Known
  <2>6. key - d < batches'[1].start
    BY <1>2, <2>1, <2>3, <2>4, <2>5
  <2>7. ASSUME NEW k \in 1 .. Len(batches'), k <= behind' PROVE key - d < batches'[k].start
    <3>1. CASE k = 1
      BY <2>6, <3>1
    <3>2. CASE k > 1
      <4>1. k - 1 \in 1 .. Len(batches) /\ batches'[k].start = batches[k - 1].start - d
        BY <1>2, <3>2
      <4>2. k - 1 <= behind
        BY <1>1, <1>2, <2>7
      <4>3. key < batches[k - 1].start
        BY <2>2, <4>1, <4>2
      <4>4. batches[k - 1].start \in Int /\ d \in Int
        BY <1>2, <2>4, <4>1
      <4> QED BY <2>1, <4>1, <4>3, <4>4
    <3> QED BY <1>2, <3>1, <3>2
  <2>8. \/ \E k \in 1 .. Len(batches') : key - d = batches'[k].start
        \/ \A k \in 1 .. Len(batches') : key - d < batches'[k].start
    <3>1. CASE \E k \in 1 .. Len(batches) : key = batches[k].start /\ k + 1 \in 1 .. Len(batches')
      <4>1. PICK k \in 1 .. Len(batches) : key = batches[k].start /\ k + 1 \in 1 .. Len(batches')
        BY <3>1
      <4>2. k + 1 > 1 /\ (k + 1) - 1 = k
        BY <1>2, <4>1
      <4>3. batches'[k + 1].start = batches[k].start - d
        BY <1>2, <4>1, <4>2
      <4> QED BY <4>1, <4>3
    <3>2. CASE ~\E k \in 1 .. Len(batches) : key = batches[k].start /\ k + 1 \in 1 .. Len(batches')
      <4>1. ASSUME NEW k \in 1 .. Len(batches') PROVE key - d < batches'[k].start
        <5>1. CASE k = 1
          BY <2>6, <5>1
        <5>2. CASE k > 1
          <6>1. k - 1 \in 1 .. Len(batches) /\ batches'[k].start = batches[k - 1].start - d
            BY <1>2, <5>2
          <6>2. key < batches[k - 1].start
            <7>1. CASE \A j \in 1 .. Len(batches) : key < batches[j].start
              BY <6>1, <7>1
            <7>2. CASE \E j \in 1 .. Len(batches) : key = batches[j].start
              <8>1. PICK j \in 1 .. Len(batches) : key = batches[j].start
                BY <7>2
              <8>2. j + 1 \notin 1 .. Len(batches')
                BY <3>2, <8>1
              <8>3. k - 1 < j
                BY <1>2, <6>1, <8>2
              <8> QED BY <1>1, <6>1, <8>1, <8>3, HistoryFacts
            <7> QED BY <2>2, <7>1, <7>2 DEF Known
          <6>3. batches[k - 1].start \in Int /\ d \in Int
            BY <1>2, <2>4, <6>1
          <6> QED BY <2>1, <6>1, <6>2, <6>3
        <5> QED BY <1>2, <5>1, <5>2
      <4> QED BY <4>1
    <3> QED BY <3>1, <3>2
  <2>9. batches' # <<>>
    BY <1>2
  <2>10. Known(overlay[i].key)'
    BY <2>1, <2>8, <2>9 DEF Known
  <2> QED BY <2>1, <2>7, <2>10
<1>9. Ordered(overlay, behind)'
  BY <1>1, <1>2, <1>5, <1>6, <1>7, <1>8 DEF Ordered
<1> QED BY <1>4, <1>5, <1>6, <1>9 DEF d

\* The corrected batches are as many, each one further back, and the chain's run is what it was.
LEMMA RunsPass ==
    ASSUME FenceInv, NEW late \in Int, NEW gap \in Nat \ {0}, OpenBatch(late, gap)
    PROVE  Runs(overlay, chain, behind)'
<1> DEFINE d == gap * Period
           L == Len(batches)
           M == Len(batches')
<1>1. /\ HistoryInv /\ Ordered(overlay, behind) /\ Runs(overlay, chain, behind)
      /\ behind \in Nat /\ chain \in Chain /\ L \in Nat /\ Floor \in Int
      /\ Ordered(overlay, behind)' /\ behind' = behind + 1
  <2>1. HistoryInv /\ Ordered(overlay, behind) /\ Runs(overlay, chain, behind)
    BY DEF FenceInv
  <2>2. behind' = behind + 1
    BY DEF OpenBatch
  <2> QED BY <2>1, <2>2, OverlayPasses, HistoryFacts DEF HistoryInv
<1>2. /\ d \in Nat \ {0} /\ Floor' = Floor /\ batches' \in Seq(Batch)
      /\ \A i \in 1 .. M : i > 1 => i - 1 \in 1 .. L /\ batches'[i].start = batches[i - 1].start - d
  BY <1>1, HistoryGrows
<1>3. /\ Len(overlay') = Len(overlay) /\ overlay' \in Seq(Mark)
      /\ \A i \in 1 .. Len(overlay) :
            /\ overlay[i].key \in Int /\ overlay'[i].late = overlay[i].late
            /\ overlay'[i].key # Floor => overlay'[i].key = overlay[i].key - d
  BY <1>1, OverlayPasses DEF Ordered
<1>4. chain'.valid = chain.valid /\ chain'.lateRun = chain.lateRun
  BY <1>1 DEF OpenBatch, Pass, Chain
<1> HIDE DEF d
<1>5. ASSUME NEW i \in 1 .. M, LateAt(overlay, i)'
      PROVE  i > behind + 1 /\ LateAt(overlay, i - 1)
  <2> DEFINE at == batches'[i].start
             was == batches[i - 1].start
  <2>1. batches'[i] \in Batch
    BY <1>2
  <2>2. at \in Int /\ Floor < at /\ Correction(overlay', at) # 0
    <3>1. at \in Int
      BY <2>1 DEF Batch
    <3>2. (batches[i].start > Floor)' /\ (Correction(overlay, batches[i].start) # 0)'
      BY <1>5 DEF LateAt
    <3>3. (Correction(overlay, batches[i].start))' = Correction(overlay', at)
      OBVIOUS
    <3> QED BY <1>1, <1>2, <3>1, <3>2, <3>3
  <2> HIDE DEF at
  <2>3. PICK j \in 1 .. Len(overlay') : overlay'[j].key = at /\ overlay'[j].late = Correction(overlay', at)
    BY <1>3, <2>2, CorrectionIs
  <2>4. j \in 1 .. Len(overlay) /\ overlay[j].key = at + d /\ overlay[j].late # 0
    <3>1. j \in 1 .. Len(overlay)
      BY <1>3, <2>3
    <3>2. overlay'[j].key # Floor /\ d \in Int
      BY <1>1, <1>2, <2>2, <2>3
    <3>3. /\ overlay[j].key \in Int /\ overlay'[j].late = overlay[j].late
          /\ overlay'[j].key = overlay[j].key - d
      BY <1>3, <3>1, <3>2
    <3> QED BY <2>2, <2>3, <3>1, <3>2, <3>3
  <2>5. i > behind + 1
    <3>1. (i <= behind') => overlay'[j].key < batches'[i].start
      <4>1. overlay'[j].key # Floor'
        BY <1>1, <1>2, <2>2, <2>3
      <4> QED BY <1>1, <2>3, <4>1 DEF Ordered
    <3>2. ~(overlay'[j].key < batches'[i].start)
      BY <2>2, <2>3 DEF at
    <3>3. ~(i <= behind + 1)
      BY <1>1, <3>1, <3>2
    <3> QED BY <1>1, <3>3
  <2>6. i - 1 \in 1 .. L /\ at = was - d
    <3>1. i > 1
      BY <1>1, <2>5
    <3>2. i - 1 \in 1 .. L /\ batches'[i].start = batches[i - 1].start - d
      BY <1>2, <3>1
    <3> QED BY <3>2 DEF at
  <2>7. was \in Int
    BY <1>1, <2>6, HistoryFacts
  <2> HIDE DEF was
  <2>8. overlay[j].key = was /\ Floor < was
    BY <1>1, <1>2, <2>2, <2>4, <2>6, <2>7
  <2>9. Correction(overlay, was) = overlay[j].late
    BY <1>1, <2>4, <2>7, <2>8, MarkedIs
  <2>10. Correction(overlay, was) # 0
    BY <2>4, <2>9
  <2> QED BY <2>5, <2>6, <2>8, <2>10 DEF LateAt, was
<1>6. M \in Nat /\ \A i : LateAt(overlay, i)' => i \in 1 .. M
  BY <1>2 DEF LateAt
<1>7. ASSUME NEW i \in Int, LateAt(overlay, i)' PROVE i > behind + 1 /\ LateAt(overlay, i - 1)
  BY <1>5, <1>6, <1>7
<1>8. ASSUME NEW i \in 1 .. M,
             LateAt(overlay, i)', LateAt(overlay, i + 1)', LateAt(overlay, i + 2)'
      PROVE  FALSE
  <2>1. i \in Int /\ i + 1 \in Int /\ i + 2 \in Int /\ (i + 1) - 1 = (i - 1) + 1 /\ (i + 2) - 1 = (i - 1) + 2
    OBVIOUS
  <2>2. i > behind + 1 /\ LateAt(overlay, i - 1)
    BY <1>7, <1>8, <2>1
  <2>3. LateAt(overlay, (i - 1) + 1)
    BY <1>7, <1>8, <2>1
  <2>4. LateAt(overlay, (i - 1) + 2)
    BY <1>7, <1>8, <2>1
  <2>5. i - 1 \in 1 .. L /\ i - 1 > behind
    BY <1>1, <2>2 DEF LateAt
  <2> QED BY <1>1, <2>2, <2>3, <2>4, <2>5 DEF Runs
<1>9. PICK n \in Nat : n = behind
  BY <1>1
<1>10. ASSUME chain'.valid, LateAt(overlay, n + 2)'
       PROVE  chain'.lateRun >= 1 /\ (LateAt(overlay, n + 3)' => chain'.lateRun >= 2)
  <2>1. n + 2 \in Int /\ n + 3 \in Int /\ (n + 2) - 1 = behind + 1 /\ (n + 3) - 1 = behind + 2
    BY <1>9
  <2>2. LateAt(overlay, behind + 1)
    <3>1. LateAt(overlay, (n + 2) - 1)
      BY <1>7, <1>10, <2>1
    <3> QED BY <2>1, <3>1
  <2>3. LateAt(overlay, n + 3)' => LateAt(overlay, behind + 2)
    <3>1. LateAt(overlay, n + 3)' => LateAt(overlay, (n + 3) - 1)
      BY <1>7, <2>1
    <3> QED BY <2>1, <3>1
  <2> QED BY <1>1, <1>4, <1>10, <2>2, <2>3 DEF Runs
<1>11. behind' + 1 = n + 2 /\ behind' + 2 = n + 3
  BY <1>1, <1>9
<1>12. \A i \in 1 .. M :
          i > behind' => ~(LateAt(overlay, i)' /\ LateAt(overlay, i + 1)' /\ LateAt(overlay, i + 2)')
  BY <1>8
<1>13. chain'.valid /\ LateAt(overlay, n + 2)' =>
           chain'.lateRun >= 1 /\ (LateAt(overlay, n + 3)' => chain'.lateRun >= 2)
  BY <1>10
<1> QED BY <1>11, <1>12, <1>13 DEF Runs, LateAt

LEMMA OpenKeeps ==
    ASSUME FenceInv, NEW late \in Int, NEW gap \in Nat \ {0}, OpenBatch(late, gap)
    PROVE  FenceInv'
<1> DEFINE d == gap * Period
           L == Len(batches)
           M == Len(batches')
<1>1. HistoryInv /\ behind \in Nat /\ fresh \in Nat /\ chain \in Chain
  BY DEF FenceInv, HistoryInv
<1>2. Period \in Nat \ {0} /\ Floor \in Int /\ L \in Nat /\ Floor < 0 /\ Floor <= consumed /\ consumed \in Int
  BY <1>1, HistoryFacts
<1>3. /\ d \in Nat \ {0} /\ Floor' = Floor /\ Period' = Period /\ batches' \in Seq(Batch)
      /\ M = IF L < History THEN L + 1 ELSE History
  BY <1>1, HistoryGrows
<1>4. /\ batches'[1].start = late
      /\ \A i \in 1 .. M : i > 1 => i - 1 \in 1 .. L /\ batches'[i].start = batches[i - 1].start - d
      /\ batches # <<>> => late > batches[1].start - d
  BY <1>1, HistoryGrows
<1>5. /\ stride' = stride /\ behind' = behind + 1 /\ fresh' = fresh + 1
      /\ flips' = {t - d : t \in {f \in flips : f - d > Floor}}
      /\ due' = Later(due, d) /\ consumed' = Later(consumed, d)
      /\ chain' = [chain EXCEPT !.anchor = IF chain.valid THEN Later(@, d) ELSE 0,
                                !.anchorBatch = IF chain.valid THEN Later(@, d) ELSE 0,
                                !.seen = IF chain.any THEN Later(@, d) ELSE 0]
  BY DEF OpenBatch, Pass
<1>6. L \in Nat /\ M \in Nat /\ M <= History
  BY <1>2, <1>3, Constants
<1> HIDE DEF d
<1>7. \A t \in Int : Later(t, d) \in Int /\ Floor <= Later(t, d) /\ (t <= Period => Later(t, d) <= Period)
  BY <1>2, <1>3 DEF Later
<1>8. ASSUME NEW i \in 1 .. M, NEW j \in 1 .. M, i < j PROVE batches'[j].start < batches'[i].start
  <2>1. j > 1 /\ j - 1 \in 1 .. L /\ batches'[j].start = batches[j - 1].start - d
    BY <1>4, <1>6, <1>8
  <2>2. batches[j - 1].start \in Int
    BY <1>1, <2>1, HistoryFacts
  <2>3. CASE i = 1
    <3>1. 1 \in 1 .. L /\ batches # <<>> /\ batches[1].start \in Int
      <4>1. 1 \in 1 .. L
        BY <1>2, <2>1
      <4>2. batches # <<>>
        BY <2>1
      <4> QED BY <1>1, <4>1, <4>2, HistoryFacts
    <3>2. batches[j - 1].start <= batches[1].start
      <4>1. CASE j - 1 = 1
        BY <3>1, <4>1
      <4>2. CASE j - 1 # 1
        <5>1. 1 < j - 1
          BY <2>1, <4>2
        <5>2. batches[j - 1].start < batches[1].start
          BY <1>1, <2>1, <3>1, <5>1, HistoryFacts
        <5> QED BY <2>2, <3>1, <5>2
      <4> QED BY <4>1, <4>2
    <3>3. batches'[i].start > batches[1].start - d /\ batches'[i].start = late /\ d \in Int
      BY <1>3, <1>4, <2>3, <3>1
    <3> QED BY <2>1, <2>2, <3>1, <3>2, <3>3
  <2>4. CASE i # 1
    <3>1. i > 1 /\ i - 1 \in 1 .. L /\ batches'[i].start = batches[i - 1].start - d
      BY <1>4, <1>6, <2>4
    <3>2. i - 1 < j - 1
      BY <1>8, <1>6
    <3>3. batches[j - 1].start < batches[i - 1].start /\ batches[i - 1].start \in Int
      BY <1>1, <2>1, <3>1, <3>2, HistoryFacts
    <3>4. d \in Int
      BY <1>3
    <3> QED BY <2>1, <2>2, <3>1, <3>3, <3>4
  <2> QED BY <2>3, <2>4
<1>9. flips' \subseteq Floor .. Period
  <2>1. flips \subseteq Floor .. Period
    BY <1>1 DEF HistoryInv
  <2>2. ASSUME NEW t \in flips, t - d > Floor PROVE t - d \in Floor .. Period
    <3>1. t \in Floor .. Period
      BY <2>1
    <3> QED BY <1>2, <1>3, <2>2, <3>1
  <2> QED BY <1>5, <2>2
<1>10. due' \in Floor .. Period /\ consumed' \in Int /\ Floor <= consumed'
  <2>1. due \in Floor .. Period
    BY <1>1 DEF HistoryInv
  <2>2. due \in Int /\ due <= Period
    BY <1>2, <2>1
  <2>3. Later(due, d) \in Int /\ Floor <= Later(due, d) /\ Later(due, d) <= Period
    BY <1>7, <2>2
  <2>4. Later(consumed, d) \in Int /\ Floor <= Later(consumed, d)
    BY <1>2, <1>7
  <2> QED BY <1>2, <1>5, <2>3, <2>4
<1>11. chain' \in Chain
  <2> DEFINE x == IF chain.valid THEN Later(chain.anchor, d) ELSE 0
             y == IF chain.valid THEN Later(chain.anchorBatch, d) ELSE 0
             z == IF chain.any THEN Later(chain.seen, d) ELSE 0
  <2>1. chain.anchor \in Int /\ chain.anchorBatch \in Int /\ chain.seen \in Int
    BY <1>1 DEF Chain
  <2>2. x \in Int /\ y \in Int /\ z \in Int
    BY <1>7, <2>1
  <2>3. chain' = [chain EXCEPT !.anchor = x, !.anchorBatch = y, !.seen = z]
    BY <1>5
  <2> HIDE DEF x, y, z
  <2> QED BY <1>1, <2>2, <2>3 DEF Chain
<1>12. behind' \in Nat /\ fresh' \in Nat /\ (behind' <= M \/ M = History)
  <2>1. behind <= L \/ L = History
    BY <1>1 DEF HistoryInv
  <2>2. L <= History
    BY <1>1 DEF HistoryInv
  <2>3. M = IF L < History THEN L + 1 ELSE History
    BY <1>3
  <2>4. behind \in Nat /\ fresh \in Nat /\ behind' = behind + 1 /\ fresh' = fresh + 1
    BY <1>1, <1>5
  <2> HIDE DEF L, M
  <2>5. behind + 1 <= M \/ M = History
    BY <1>6, <2>1, <2>2, <2>3, <2>4, Constants
  <2> QED BY <2>4, <2>5
<1>13. stride' \in Nat \ {0}
  BY <1>1, <1>5 DEF HistoryInv
<1>14. HistoryInv'
  BY <1>3, <1>6, <1>8, <1>9, <1>10, <1>11, <1>12, <1>13 DEF HistoryInv
<1>15. Ordered(overlay, behind)' /\ Runs(overlay, chain, behind)'
  BY OverlayPasses, RunsPass
<1> QED BY <1>14, <1>15 DEF FenceInv

\* Nothing but what is known of the flips has changed.
LEMMA FlipsKeep ==
    ASSUME FenceInv, UNCHANGED <<stride, batches, behind, fresh, chain, overlay, consumed>>,
           flips' \subseteq Floor .. Period, due' \in Floor .. Period
    PROVE  FenceInv'
<1>1. Floor' = Floor /\ Period' = Period
  BY DEF Floor, Period
<1>2. HistoryInv'
  BY <1>1 DEF FenceInv, HistoryInv
<1>3. Ordered(overlay, behind)'
  BY <1>1 DEF FenceInv, Ordered, Known
<1>4. Runs(overlay, chain, behind)'
  BY <1>1 DEF FenceInv, Runs, LateAt
<1> QED BY <1>2, <1>3, <1>4 DEF FenceInv

LEMMA ArriveKeeps == ASSUME FenceInv, FlipsArrive PROVE FenceInv'
<1> DEFINE span == Period - Step - due
           most == span \div Step
           new == {due + k * Step : k \in 0 .. most}
<1>1. HistoryInv /\ flips \subseteq Floor .. Period /\ due \in Floor .. Period
  BY DEF FenceInv, HistoryInv
<1>2. Period \in Nat \ {0} /\ Floor \in Int /\ Floor < 0 /\ Step \in Nat \ {0}
  BY <1>1, HistoryFacts, Constants
<1>3. due \in Int /\ span \in Int
  BY <1>1, <1>2
<1>4. new \subseteq Floor .. Period
  <2> HIDE DEF span
  <2>1. most \in Int /\ most * Step <= span
    BY <1>2, <1>3
  <2> HIDE DEF most
  <2>2. ASSUME NEW k \in 0 .. most PROVE due + k * Step \in Floor .. Period
    <3>1. k \in Nat /\ k <= most
      BY <2>1
    <3>2. k * Step \in Nat
      BY <1>2, <3>1
    <3>3. k * Step <= most * Step
      BY <1>2, <2>1, <3>1
    <3>4. most * Step \in Int
      BY <1>2, <2>1
    <3>5. due + k * Step <= due + span
      BY <1>3, <2>1, <3>2, <3>3, <3>4
    <3> QED BY <1>1, <1>2, <1>3, <3>2, <3>5 DEF span
  <2> QED BY <2>2
<1>5. \/ flips' = flips \union new
      \/ \E lost \in new : flips' = flips \union (new \ {lost})
  BY DEF FlipsArrive
<1> HIDE DEF new
<1>6. flips' \subseteq Floor .. Period
  BY <1>1, <1>4, <1>5
<1>7. due' \in Floor .. Period
  <2>1. due' = Period
    BY DEF FlipsArrive
  <2> QED BY <1>2, <2>1
<1>8. UNCHANGED <<stride, batches, behind, fresh, chain, overlay, consumed>>
  BY DEF FlipsArrive
<1> QED BY <1>6, <1>7, <1>8, FlipsKeep

\* What the walk leaves is ordered, and agrees with what it found.
LEMMA PresentKeeps ==
    ASSUME FenceInv, Present
    PROVE  /\ FenceInv' /\ Agree(overlay, overlay') /\ overlay' \in Seq(Mark)
           /\ UNCHANGED batches
<1>1. PICK t \in Targets, calm \in BOOLEAN :
         LET target == IF t > consumed THEN t ELSE consumed
             w == Walked(calm, target)
         IN /\ consumed' = target
            /\ behind' = w.behind /\ chain' = w.chain /\ overlay' = w.over
  BY DEF Present
<1> DEFINE target == IF t > consumed THEN t ELSE consumed
           w == Walked(calm, target)
<1>2. HistoryInv /\ consumed \in Int /\ t \in Int /\ Floor <= consumed /\ Floor \in Int
  <2>1. HistoryInv
    BY DEF FenceInv
  <2> QED BY <2>1, HistoryFacts, Constants
<1>3. target \in Int /\ consumed <= target /\ Floor <= target
  BY <1>2
<1>4. consumed' = target /\ behind' = w.behind /\ chain' = w.chain /\ overlay' = w.over
  BY <1>1
<1>5. fresh' = 0 /\ UNCHANGED <<stride, batches, flips, due, outage, faults>>
  BY DEF Present
<1> HIDE DEF target
<1>6. PICK m \in Nat : Walking(w, m)
  BY <1>3, WalkedKeeps
<1> HIDE DEF w
<1>7. /\ w \in [behind : Nat, chain : Chain, over : Seq(Mark), stopped : BOOLEAN]
      /\ w.behind <= Len(batches) /\ Ordered(w.over, w.behind) /\ Agree(overlay, w.over)
      /\ Runs(w.over, w.chain, w.behind)
  BY <1>6 DEF Walking
<1>8. Floor' = Floor /\ Period' = Period
  BY <1>5 DEF Floor, Period
<1>9. w.behind \in Nat /\ w.chain \in Chain /\ w.over \in Seq(Mark)
  BY <1>7
<1>10. HistoryInv'
  <2>1. behind' \in Nat /\ chain' \in Chain /\ fresh' \in Nat /\ behind' <= Len(batches')
    BY <1>4, <1>5, <1>7, <1>9
  <2>2. consumed' \in Int /\ Floor <= consumed'
    BY <1>3, <1>4
  <2> QED BY <1>2, <1>5, <1>8, <2>1, <2>2 DEF HistoryInv
<1>11. Ordered(overlay, behind)'
  BY <1>4, <1>5, <1>7, <1>8 DEF Ordered, Known
<1>12. Runs(overlay, chain, behind)'
  BY <1>4, <1>5, <1>7, <1>8 DEF Runs, LateAt
<1> QED BY <1>4, <1>5, <1>7, <1>9, <1>10, <1>11, <1>12 DEF FenceInv

LEMMA FenceStep == ASSUME FenceInv, [Next]_vars PROVE FenceInv'
<1>1. HistoryInv /\ flips \subseteq Floor .. Period /\ due \in Floor .. Period
  BY DEF FenceInv, HistoryInv
<1>2. Period \in Nat \ {0} /\ Floor \in Int /\ Floor < 0
  BY <1>1, HistoryFacts
<1>3. 0 \in Int /\ 1 \in Nat \ {0} /\ Latenesses \subseteq Int /\ Gaps \subseteq Nat \ {0}
  BY Constants
<1>4. CASE BatchOpens
  <2>1. OpenBatch(0, 1)
    BY <1>4 DEF BatchOpens
  <2> QED BY <1>3, <2>1, OpenKeeps
<1>5. CASE BatchDisturbed
  <2>1. (\E late \in Latenesses : OpenBatch(late, 1)) \/ \E gap \in Gaps : OpenBatch(0, gap)
    BY <1>5 DEF BatchDisturbed
  <2>2. ASSUME NEW late \in Latenesses, OpenBatch(late, 1) PROVE FenceInv'
    BY <1>3, <2>2, OpenKeeps
  <2>3. ASSUME NEW gap \in Gaps, OpenBatch(0, gap) PROVE FenceInv'
    BY <1>3, <2>3, OpenKeeps
  <2> QED BY <2>1, <2>2, <2>3
<1>6. CASE BacklogDrains
  <2>1. PICK late \in Latenesses : OpenBatch(late, 1)
    BY <1>6 DEF BacklogDrains
  <2> QED BY <1>3, <2>1, OpenKeeps
<1>7. CASE FlipsArrive
  BY <1>7, ArriveKeeps
<1>8. CASE OutageBegins
  <2>1. UNCHANGED <<stride, batches, flips, due, behind, fresh, chain, overlay, consumed>>
    BY <1>8 DEF OutageBegins
  <2> QED BY <1>1, <2>1, FlipsKeep
<1>9. CASE OutageEnds
  <2>1. /\ UNCHANGED <<stride, batches, flips, behind, fresh, chain, overlay, consumed>>
        /\ due' \in {due, 0}
    BY <1>9 DEF OutageEnds
  <2>2. due' \in Floor .. Period
    BY <1>1, <1>2, <2>1
  <2> QED BY <1>1, <2>1, <2>2, FlipsKeep
<1>10. CASE Present
  BY <1>10, PresentKeeps
<1>11. CASE UNCHANGED vars
  <2>1. UNCHANGED <<stride, batches, flips, due, behind, fresh, chain, overlay, consumed>>
    BY <1>11 DEF vars
  <2> QED BY <1>1, <2>1, FlipsKeep
<1> QED BY <1>4, <1>5, <1>6, <1>7, <1>8, <1>9, <1>10, <1>11 DEF Next

LEMMA FenceInit == ASSUME Init PROVE FenceInv
<1>1. stride \in Nat \ {0}
  BY Constants DEF Init
<1>2. Period \in Nat \ {0} /\ Floor \in Int /\ Floor < 0
  <2>1. Period \in Nat \ {0}
    BY <1>1, Constants DEF Period
  <2>2. History * Period \in Nat
    BY <2>1, Constants
  <2> QED BY <2>1, <2>2, Constants DEF Floor
<1>3. batches = <<>> /\ behind = 0 /\ fresh = 0 /\ flips = {} /\ due = 0 /\ overlay = <<>> /\ consumed = Floor
  BY DEF Init
<1>4. <<>> \in Seq(Batch) /\ <<>> \in Seq(Mark) /\ Len(<<>>) = 0
  OBVIOUS
<1>5. chain \in Chain
  <2> DEFINE none == 0
             no == <<>>
  <2>1. none \in Int /\ none \in Nat /\ no \in Seq(Int)
    OBVIOUS
  <2>2. chain = [anchor |-> none, anchorBatch |-> none, seen |-> none, any |-> FALSE,
                 valid |-> FALSE, warmup |-> none, lateRun |-> none, gaps |-> no]
    BY DEF Init, FreshChain
  <2> HIDE DEF none, no
  <2> QED BY <2>1, <2>2 DEF Chain
<1>6. HistoryInv
  <2>1. due \in Floor .. Period /\ consumed \in Int /\ Floor <= consumed
    BY <1>2, <1>3
  <2>2. Len(batches) <= History /\ behind <= Len(batches) /\ behind \in Nat /\ fresh \in Nat
    BY <1>3, <1>4, Constants
  <2>3. \A i, j \in 1 .. Len(batches) : i < j => batches[j].start < batches[i].start
    BY <1>3, <1>4
  <2> QED BY <1>1, <1>3, <1>4, <1>5, <2>1, <2>2, <2>3 DEF HistoryInv
<1>7. Ordered(overlay, behind)
  BY <1>3, <1>4, Constants DEF Ordered
<1>8. Runs(overlay, chain, behind)
  <2>1. \A i : ~LateAt(overlay, i)
    BY <1>3, <1>4 DEF LateAt
  <2> QED BY <2>1 DEF Runs
<1> QED BY <1>6, <1>7, <1>8 DEF FenceInv

\* The history of batches and the overlay of corrections stay in order: starts fall, keys rise,
\* and no batch still to be walked has a mark.
THEOREM FenceInvariant == Spec => []FenceInv
BY FenceInit, FenceStep, PTL DEF Spec

\* Three batches of the ring in a row never have a correction each, least of all one that is not
\* what they came late by: the chain that made up two of them is dropped at the third.
THEOREM FictionStops == Spec => []FictionEnds
<1>1. ASSUME FenceInv PROVE FictionEnds
  <2>1. HistoryInv /\ Ordered(overlay, behind) /\ Runs(overlay, chain, behind) /\ behind \in Nat
    BY <1>1 DEF FenceInv, HistoryInv
  <2>2. ASSUME NEW i \in InRing, batches[i].start > Floor, i > 2
        PROVE  \E k \in i - 2 .. i : ~Fiction(k)
    <3>1. i \in 1 .. Len(batches) /\ i - 2 \in 1 .. Len(batches) /\ i - 1 \in 1 .. Len(batches)
          /\ i \in Int /\ i - 2 \in Int /\ i - 2 < i /\ i - 1 < i
      BY <2>1, <2>2, RingWithin, HistoryFacts
    <3>2. batches[i - 2].start > Floor /\ batches[i - 1].start > Floor
      <4>1. batches[i].start < batches[i - 1].start /\ batches[i].start < batches[i - 2].start
        BY <2>1, <3>1, HistoryFacts
      <4>2. /\ batches[i].start \in Int /\ batches[i - 1].start \in Int /\ batches[i - 2].start \in Int
            /\ Floor \in Int
        BY <2>1, <3>1, HistoryFacts
      <4> QED BY <2>2, <4>1, <4>2
    <3>3. PICK k \in i - 2 .. i : ~LateAt(overlay, k)
      <4>1. CASE i - 2 <= behind
        <5>1. ~LateAt(overlay, i - 2)
          BY <2>1, <3>1, <4>1, NotYetLate
        <5> QED BY <3>1, <5>1
      <4>2. CASE ~(i - 2 <= behind)
        <5>1. i - 2 > behind /\ (i - 2) + 1 = i - 1 /\ (i - 2) + 2 = i
          BY <2>1, <3>1, <4>2
        <5>2. ~(LateAt(overlay, i - 2) /\ LateAt(overlay, (i - 2) + 1) /\ LateAt(overlay, (i - 2) + 2))
          BY <2>1, <3>1, <5>1 DEF Runs
        <5>3. ~LateAt(overlay, i - 2) \/ ~LateAt(overlay, i - 1) \/ ~LateAt(overlay, i)
          BY <5>1, <5>2
        <5>4. i - 2 \in i - 2 .. i /\ i - 1 \in i - 2 .. i /\ i \in i - 2 .. i
          BY <3>1
        <5> QED BY <5>3, <5>4
      <4> QED BY <4>1, <4>2
    <3>4. k \in 1 .. Len(batches) /\ batches[k].start > Floor
      <4>1. k = i - 2 \/ k = i - 1 \/ k = i
        BY <3>1
      <4> QED BY <2>2, <3>1, <3>2, <4>1
    <3>5. ~Fiction(k)
      BY <3>3, <3>4 DEF LateAt, Fiction
    <3> QED BY <3>5
  <2> QED BY <2>2 DEF FictionEnds
<1> QED BY <1>1, FenceInvariant, PTL

\* Whatever the walk of a present measures, no frame of the ring changes sides of a target
\* consumed before it.
THEOREM FenceStands == Spec => FenceHolds
<1>1. ASSUME FenceInv, [Next]_vars, Presents
      PROVE  \A i \in InRing : (Corrected(i) <= consumed) = (Corrected(i)' <= consumed)
  <2>1. HistoryInv /\ fresh \in Nat /\ overlay \in Seq(Mark)
    BY <1>1 DEF FenceInv, HistoryInv, Ordered
  <2>2. Present
    <3>1. fresh' # fresh /\ fresh' # fresh + 1
      BY <1>1, <2>1 DEF Presents
    <3>2. ~(UNCHANGED vars) /\ ~FlipsArrive /\ ~OutageBegins /\ ~OutageEnds
      BY <3>1 DEF vars, FlipsArrive, OutageBegins, OutageEnds
    <3>3. \A late, gap : ~OpenBatch(late, gap)
      BY <3>1 DEF OpenBatch
    <3>4. ~BatchOpens /\ ~BatchDisturbed /\ ~BacklogDrains
      BY <3>3 DEF BatchOpens, BatchDisturbed, BacklogDrains
    <3> QED BY <1>1, <3>2, <3>4 DEF Next
  <2>3. Agree(overlay, overlay') /\ overlay' \in Seq(Mark) /\ batches' = batches
    BY <1>1, <2>2, PresentKeeps
  <2>4. ASSUME NEW i \in InRing
        PROVE  (Corrected(i) <= consumed) = (Corrected(i)' <= consumed)
    <3> DEFINE at == batches[i].start
               a == Correction(overlay, at)
               b == Correction(overlay', at)
    <3>1. at \in Int /\ consumed \in Int
      BY <2>1, RingWithin, HistoryFacts
    <3>2. a \in Nat /\ b \in Nat
      BY <2>1, <2>3, CorrectionIs
    <3>3. Corrected(i) = at - a /\ Corrected(i)' = at - b
      BY <2>3 DEF Corrected
    <3>4. consumed < at => (at - a <= consumed <=> at - b <= consumed)
      BY <2>3 DEF Agree
    <3> HIDE DEF at, a, b
    <3>5. at - a <= consumed <=> at - b <= consumed
      BY <3>1, <3>2, <3>4
    <3> QED BY <3>3, <3>5
  <2> QED BY <2>4
<1>2. FenceInv /\ [Next]_vars =>
         [Presents => \A i \in InRing : (Corrected(i) <= consumed) = (Corrected(i)' <= consumed)]_vars
  BY <1>1
<1> QED BY <1>2, FenceInvariant, PTL DEF Spec, FenceHolds
==============================================================================
