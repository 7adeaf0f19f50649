----------------------------- MODULE ParkedProofs -----------------------------
(***************************************************************************)
(* What is proved of module Parked, for every source period, band, present *)
(* clock, phase and pattern of jitter its assumption allows, and for runs  *)
(* of any length: both policies keep up with the target, and on the clocks *)
(* they were made for their decisions settle, nothing is blended between   *)
(* frames that are there, and a missing frame is blended over.             *)
(*                                                                         *)
(* With no frame missing a bracket is two stamps, Bef and Aft; the proofs  *)
(* speak of these and come back to the teeth only where the target moves.  *)
(***************************************************************************)
EXTENDS Parked, FiniteSetTheorems, TLAPS

-----------------------------------------------------------------------------
(* Numbers.                                                                *)

\* What the proofs use of the constants.
LEMMA Constants ==
    /\ S \in Nat /\ S >= 16 /\ Never \in Int /\ 4 * S < -Never
    /\ Band \in Nat /\ Band >= 2 /\ 4 * Band <= S
<1>1. Never \in Int
  BY SMT DEF Never
<1> QED
  BY <1>1, ParkedAssumption

\* What a regime is.
LEMMA RegimeFacts ==
    ASSUME regime \in Regimes
    PROVE  /\ regime.present \in Nat /\ regime.present > 0 /\ regime.present <= 2 * S
           /\ regime.sink \in Nat /\ regime.holes \in BOOLEAN /\ regime.reach \in {1, 2}
           /\ \A d \in regime.offsets : d \in Nat /\ 16 * d <= 3 * S
           /\ regime.phases \subseteq 0 .. (S - 1)
           /\ regime.holes => regime.present = S /\ regime.phases = {0} /\ regime.reach = 2
<1>1. regime \in Regime
  BY ParkedAssumption
<1>2. /\ regime.present \in Nat \ {0} /\ regime.sink \in Nat \ {0} /\ regime.holes \in BOOLEAN
      /\ regime.reach \in {1, 2} /\ regime.offsets \in SUBSET Nat
      /\ regime.phases \in SUBSET (0 .. (S - 1))
  BY <1>1 DEF Regime
<1>3. /\ regime.present <= 2 * S
      /\ \A d \in regime.offsets : 16 * d <= 3 * S
      /\ regime.holes => regime.present = S /\ regime.phases = {0} /\ regime.reach = 2
  BY ParkedAssumption
<1> QED
  BY <1>2, <1>3

\* Division by the source period.
LEMMA DivMod == ASSUME NEW m \in Int
                PROVE  m \div S \in Int /\ m = S * (m \div S) + (m % S) /\ m % S \in 0 .. (S - 1)
BY Constants

\* Multiples of the source period in order, which the provers do not find by themselves.
LEMMA AtLeast == ASSUME NEW k \in Int, NEW j \in {0, 1, 2, 3}, k >= j PROVE S * k >= j * S
BY Constants

LEMMA AtMost == ASSUME NEW k \in Int, k <= -1 PROVE S * k <= -S
BY Constants

\* What the target passes of the grid in one present.
LEMMA Passed ==
    ASSUME NEW m \in Nat, NEW n \in {0, 1, 2}, n * S <= m, m < (n + 1) * S
    PROVE  m \div S = n /\ m % S = m - n * S
<1> DEFINE q == m \div S
           r == m % S
<1>1. q \in Int /\ m = S * q + r /\ r \in 0 .. (S - 1)
  BY DivMod
<1> HIDE DEF q, r
<1>2. S * q \in Int
  BY <1>1, Constants
<1>3. q < n + 1
  <2>1. SUFFICES ASSUME q >= n + 1 PROVE FALSE
    BY <1>1
  <2>2. S * q >= (n + 1) * S
    BY <1>1, <2>1, AtLeast
  <2> QED
    BY <1>1, <1>2, <2>2, Constants
<1>4. q >= n
  <2>1. CASE q <= -1
    <3>1. S * q <= -S
      BY <1>1, <2>1, AtMost
    <3> QED
      BY <1>1, <1>2, <3>1, Constants
  <2>2. CASE q = 0
    BY <1>1, <2>2, Constants
  <2>3. CASE q = 1
    BY <1>1, <2>3, Constants
  <2> QED
    BY <1>1, <1>3, <2>1, <2>2, <2>3
<1>5. q = n
  BY <1>1, <1>3, <1>4
<1>6. S * n = n * S
  BY Constants
<1> QED
  BY <1>1, <1>5, <1>6, Constants DEF q, r

\* A target passes two teeth at most.
LEMMA ThreeTeeth ==
    ASSUME NEW m \in Nat, m < 3 * S
    PROVE  \E n \in {0, 1, 2} : n * S <= m /\ m < (n + 1) * S
BY Constants

-----------------------------------------------------------------------------
(* The two decisions, between a frame at x and one at y around a target at *)
(* zero.                                                                   *)

Around(x, y) ==
    [hasBefore |-> TRUE, hasAfter |-> TRUE, exempt |-> FALSE,
     beforeTs |-> x, beforeDiff |-> -x, afterTs |-> y, afterDiff |-> y]

LEMMA AroundFields ==
    ASSUME NEW x \in Int, NEW y \in Int
    PROVE  /\ Around(x, y).hasBefore = TRUE /\ Around(x, y).hasAfter = TRUE
           /\ Around(x, y).exempt = FALSE
           /\ Around(x, y).beforeTs = x /\ Around(x, y).beforeDiff = -x
           /\ Around(x, y).afterTs = y /\ Around(x, y).afterDiff = y
           /\ Target(Around(x, y)) = 0
BY DEF Around, Target

Selections == [shown : Int, pickAfter : BOOLEAN, gateOpen : BOOLEAN]

\* The side of the last pick is preferred by the band.
Nearer(x, y, lastAfter, c) == -x <= y + (IF lastAfter THEN -c.stickiness ELSE c.stickiness)

\* What the nearest mode's memory s becomes: with both frames new it takes the nearer; with the one
\* before shown it advances or waits; with both shown it repeats.
Selects(x, y, s, c, r) ==
    /\ r \in Selections
    /\ s.shown < x =>
          \/ r.shown = x /\ r.pickAfter = FALSE /\ Nearer(x, y, s.pickAfter, c)
          \/ r.shown = y /\ r.pickAfter = TRUE /\ ~Nearer(x, y, s.pickAfter, c)
    /\ x <= s.shown /\ s.shown < y =>
          \/ r.shown = y /\ r.pickAfter = TRUE /\ -x >= c.stickiness
          \/ r.shown = s.shown /\ r.pickAfter = s.pickAfter /\ -x < 2 * c.stickiness
    /\ y <= s.shown => r.shown = s.shown /\ r.pickAfter = s.pickAfter

\* SelectFrame between two frames comes to what Selects says.
LEMMA SelectBetween ==
    ASSUME NEW x \in Int, NEW y \in Int, x <= 0, y > 0,
           NEW s \in Selections, NEW c, c.stickiness \in Nat
    PROVE  Selects(x, y, s, c, SelectFrame(Around(x, y), s, c).st)
<1> DEFINE b == Around(x, y)
           gate == IF AtGate(b, s) THEN GateOpen(b, s, c) ELSE s.gateOpen
           before == [pick |-> "before",
                      st |-> [shown |-> b.beforeTs, pickAfter |-> FALSE, gateOpen |-> gate]]
           after == [pick |-> "after",
                     st |-> [shown |-> b.afterTs, pickAfter |-> TRUE, gateOpen |-> gate]]
           stay == [pick |-> "repeat", st |-> [s EXCEPT !.gateOpen = gate]]
           chosen == SelectFrame(b, s, c)
<1>1. gate \in BOOLEAN
  BY DEF GateOpen, AtGate, Selections
<1>2. \/ BeforeNew(b, s) /\ AfterNew(b, s) /\ BeforeCloser(b, s.pickAfter, c) /\ chosen = before
      \/ BeforeNew(b, s) /\ AfterNew(b, s) /\ ~BeforeCloser(b, s.pickAfter, c) /\ chosen = after
      \/ BeforeNew(b, s) /\ ~AfterNew(b, s) /\ chosen = before
      \/ ~BeforeNew(b, s) /\ AfterNew(b, s) /\ GateOpen(b, s, c) /\ chosen = after
      \/ ~BeforeNew(b, s) /\ AfterNew(b, s) /\ ~GateOpen(b, s, c) /\ chosen = stay
      \/ ~BeforeNew(b, s) /\ ~AfterNew(b, s) /\ chosen = stay
  BY DEF SelectFrame
<1> DEFINE r == chosen.st
<1>3. s.shown \in Int /\ s.pickAfter \in BOOLEAN /\ s.gateOpen \in BOOLEAN
  BY DEF Selections
<1> HIDE DEF gate, chosen
<1>4. /\ before.st.shown = x /\ before.st.pickAfter = FALSE /\ before.st \in Selections
      /\ after.st.shown = y /\ after.st.pickAfter = TRUE /\ after.st \in Selections
  BY <1>1, AroundFields DEF Selections
<1>5. stay.st.shown = s.shown /\ stay.st.pickAfter = s.pickAfter /\ stay.st \in Selections
  BY <1>1 DEF Selections
<1>6. /\ BeforeNew(b, s) <=> x > s.shown
      /\ AfterNew(b, s) <=> y > s.shown
      /\ BeforeCloser(b, s.pickAfter, c) <=> Nearer(x, y, s.pickAfter, c)
  BY AroundFields DEF BeforeNew, AfterNew, BeforeCloser, Nearer
<1>7. ~BeforeNew(b, s) /\ AfterNew(b, s) =>
         /\ GateOpen(b, s, c) => -x >= c.stickiness
         /\ ~GateOpen(b, s, c) => -x < 2 * c.stickiness
  <2>1. SUFFICES ASSUME ~BeforeNew(b, s), AfterNew(b, s)
                 PROVE  /\ GateOpen(b, s, c) => -x >= c.stickiness
                        /\ ~GateOpen(b, s, c) => -x < 2 * c.stickiness
    OBVIOUS
  <2>2. AtGate(b, s)
    BY <2>1, AroundFields DEF AtGate
  <2>3. GateOpen(b, s, c) <=> -x >= (IF s.gateOpen THEN c.stickiness ELSE 2 * c.stickiness)
    BY <2>2, AroundFields DEF GateOpen
  <2> QED
    BY <1>3, <2>3
<1>8. chosen.st = SelectFrame(Around(x, y), s, c).st
  BY DEF chosen, b
<1> HIDE DEF before, after, stay, b, r
<1>9. Selects(x, y, s, c, r)
  BY <1>2, <1>3, <1>4, <1>5, <1>6, <1>7 DEF Selects, r
<1> QED
  BY <1>8, <1>9 DEF r

\* What a blend-mode decision between a frame at x and one at y comes to, g being the gate: one
\* frame passes, neither is near, or the one that would pass is older than what is shown.
PassesBefore(x, y, g, s, c) == -x < g /\ (y < g => Nearer(x, y, s.passAfter, c))
PassesAfter(x, y, g, s, c) == y < g /\ (-x < g => ~Nearer(x, y, s.passAfter, c))
Apart(x, y, g) == -x >= g /\ y >= g
OnComb(s, c) == c.srcPeriod > 0 /\ s.target # Never /\ -s.target < (c.srcPeriod * 7) \div 8

Decides(x, y, g, s, c, r) ==
    \/ /\ PassesBefore(x, y, g, s, c) /\ x >= s.out /\ r.op = "before"
       /\ r.st = [out |-> x, target |-> 0, synth |-> FALSE, passAfter |-> FALSE]
    \/ /\ PassesAfter(x, y, g, s, c) /\ y >= s.out /\ r.op = "after"
       /\ r.st = [out |-> y, target |-> 0, synth |-> FALSE, passAfter |-> TRUE]
    \/ /\ Apart(x, y, g) /\ ~OnComb(s, c) /\ 0 >= s.out /\ r.op = "synth"
       /\ r.st = [out |-> 0, target |-> 0, synth |-> TRUE, passAfter |-> s.passAfter]
    \/ Apart(x, y, g) /\ OnComb(s, c) /\ r.op = "comb" /\ r.st = s
    \/ PassesBefore(x, y, g, s, c) /\ x < s.out /\ r.op = "hold" /\ r.st = s
    \/ PassesAfter(x, y, g, s, c) /\ y < s.out /\ r.op = "hold" /\ r.st = s
    \/ Apart(x, y, g) /\ ~OnComb(s, c) /\ 0 < s.out /\ r.op = "hold" /\ r.st = s

\* DecideComposite between two frames comes to what Decides says.
LEMMA DecideBetween ==
    ASSUME NEW x \in Int, NEW y \in Int, x <= 0, y > 0,
           NEW s \in CompositeStates, NEW c, c.stickiness \in Nat, c.srcPeriod \in Nat,
           NEW g \in Int, g = PassthroughGate(s, c)
    PROVE  Decides(x, y, g, s, c, DecideComposite(Around(x, y), s, c))
<1> DEFINE b == Around(x, y)
           picked == Candidate(b, s, c)
           r == DecideComposite(b, s, c)
           passed(what) == [op |-> what,
                            st |-> [out |-> OutputTs(b, what), target |-> Target(b),
                                    synth |-> what = "synth",
                                    passAfter |-> IF what = "synth" THEN s.passAfter
                                                  ELSE what = "after"]]
<1>1. /\ EligibleBefore(b, s, c) <=> -x < g
      /\ EligibleAfter(b, s, c) <=> y < g
      /\ BeforeCloser(b, s.passAfter, c) <=> Nearer(x, y, s.passAfter, c)
      /\ SynthWouldManufactureTooth(b, s, c) <=> OnComb(s, c)
  <2>1. EligibleBefore(b, s, c) <=> -x < g
    BY AroundFields DEF EligibleBefore
  <2>2. EligibleAfter(b, s, c) <=> y < g
    BY AroundFields DEF EligibleAfter
  <2>3. BeforeCloser(b, s.passAfter, c) <=> Nearer(x, y, s.passAfter, c)
    <3>1. b.beforeDiff = -x /\ b.afterDiff = y
      BY AroundFields
    <3> HIDE DEF b
    <3> QED
      BY <3>1 DEF BeforeCloser, Nearer
  <2>4. SynthWouldManufactureTooth(b, s, c) <=> OnComb(s, c)
    <3>1. Target(b) = 0 /\ s.target \in Int
      BY AroundFields DEF CompositeStates
    <3> QED
      BY <3>1 DEF OnComb, SynthWouldManufactureTooth
  <2> QED
    BY <2>1, <2>2, <2>3, <2>4
<1>2. b.hasBefore /\ b.hasAfter /\ ~b.exempt
  BY AroundFields
<1>3. /\ OutputTs(b, "before") = x /\ OutputTs(b, "after") = y /\ OutputTs(b, "synth") = 0
      /\ Target(b) = 0
  BY AroundFields DEF OutputTs
<1>4. s.out \in Int /\ s.passAfter \in BOOLEAN
  BY DEF CompositeStates
<1> HIDE DEF b
<1>5. \/ picked = "before" /\ PassesBefore(x, y, g, s, c)
      \/ picked = "after" /\ PassesAfter(x, y, g, s, c)
      \/ picked = "synth" /\ Apart(x, y, g) /\ ~OnComb(s, c)
      \/ picked = "comb" /\ Apart(x, y, g) /\ OnComb(s, c)
  <2>1. \/ picked = "before" /\ EligibleBefore(b, s, c)
             /\ (EligibleAfter(b, s, c) => BeforeCloser(b, s.passAfter, c))
        \/ picked = "after" /\ EligibleAfter(b, s, c)
             /\ (EligibleBefore(b, s, c) => ~BeforeCloser(b, s.passAfter, c))
        \/ picked = "synth" /\ ~EligibleBefore(b, s, c) /\ ~EligibleAfter(b, s, c)
             /\ ~SynthWouldManufactureTooth(b, s, c)
        \/ picked = "comb" /\ ~EligibleBefore(b, s, c) /\ ~EligibleAfter(b, s, c)
             /\ SynthWouldManufactureTooth(b, s, c)
    BY <1>2, Zenon DEF Candidate
  <2> QED
    BY <1>1, <2>1 DEF PassesBefore, PassesAfter, Apart
<1>6. \A what \in {"before", "after", "synth"} :
         picked = what =>
            /\ OutputTs(b, what) < s.out => r.op = "hold" /\ r.st = s
            /\ ~(OutputTs(b, what) < s.out) => r = passed(what)
  <2>1. TAKE what \in {"before", "after", "synth"}
  <2>2. HAVE picked = what
  <2>3. r = IF OutputTs(b, what) < s.out THEN HeldBack(b, s, what) ELSE Consumed(b, s, what)
    BY <2>2 DEF DecideComposite, b, picked
  <2>4. HeldBack(b, s, what).op = "hold" /\ HeldBack(b, s, what).st = s
    BY DEF HeldBack
  <2>5. Consumed(b, s, what) = passed(what)
    BY DEF Consumed
  <2> QED
    BY <2>3, <2>4, <2>5
<1>7. picked = "comb" => r.op = "comb" /\ r.st = s
  <2>1. HAVE picked = "comb"
  <2>2. r = HeldBack(b, s, "comb")
    BY <2>1 DEF DecideComposite, b, picked
  <2>3. HeldBack(b, s, "comb").op = "comb" /\ HeldBack(b, s, "comb").st = s
    BY DEF HeldBack
  <2> QED
    BY <2>2, <2>3
<1> SUFFICES Decides(x, y, g, s, c, r)
  BY DEF b
<1> HIDE DEF picked, r
<1>8. CASE picked = "before" /\ PassesBefore(x, y, g, s, c)
  <2>1. /\ x < s.out => r.op = "hold" /\ r.st = s
        /\ ~(x < s.out) => r = passed("before")
    BY <1>3, <1>6, <1>8
  <2>2. passed("before").op = "before" /\ passed("before").st =
           [out |-> x, target |-> 0, synth |-> FALSE, passAfter |-> FALSE]
    BY <1>3
  <2> QED
    BY <1>4, <1>8, <2>1, <2>2 DEF Decides
<1>9. CASE picked = "after" /\ PassesAfter(x, y, g, s, c)
  <2>1. /\ y < s.out => r.op = "hold" /\ r.st = s
        /\ ~(y < s.out) => r = passed("after")
    BY <1>3, <1>6, <1>9
  <2>2. passed("after").op = "after" /\ passed("after").st =
           [out |-> y, target |-> 0, synth |-> FALSE, passAfter |-> TRUE]
    BY <1>3
  <2> QED
    BY <1>4, <1>9, <2>1, <2>2 DEF Decides
<1>10. CASE picked = "synth" /\ Apart(x, y, g) /\ ~OnComb(s, c)
  <2>1. /\ 0 < s.out => r.op = "hold" /\ r.st = s
        /\ ~(0 < s.out) => r = passed("synth")
    BY <1>3, <1>6, <1>10
  <2>2. passed("synth").op = "synth" /\ passed("synth").st =
           [out |-> 0, target |-> 0, synth |-> TRUE, passAfter |-> s.passAfter]
    BY <1>3
  <2> QED
    BY <1>4, <1>10, <2>1, <2>2 DEF Decides
<1>11. CASE picked = "comb" /\ Apart(x, y, g) /\ OnComb(s, c)
  BY <1>7, <1>11 DEF Decides
<1> QED
  BY <1>5, <1>8, <1>9, <1>10, <1>11

-----------------------------------------------------------------------------
(* The teeth.                                                              *)

TeethType ==
    /\ regime \in Regimes /\ phase \in 0 .. (S - 1)
    /\ tooth \in [Teeth -> regime.offsets \cup {Missing}]

\* No frame is missing.
Whole ==
    /\ ~regime.holes
    /\ {-1, 0, 1} \subseteq Teeth
    /\ \A k \in Teeth : tooth[k] \in regime.offsets

\* The stamps the target lies between.
BefAt(t, p) == IF t[0] <= p THEN t[0] - p ELSE t[-1] - S - p
AftAt(t, p) == IF t[0] <= p THEN S + t[1] - p ELSE t[0] - p
Bef == BefAt(tooth, phase)
Aft == AftAt(tooth, phase)

\* The teeth of a whole grid have stamps.
LEMMA WholeStamps ==
    ASSUME TeethType, Whole
    PROVE  /\ \A k \in Teeth : tooth[k] \in Nat /\ 16 * tooth[k] <= 3 * S /\ tooth[k] # Missing
           /\ {-1, 0, 1} \subseteq Teeth /\ Teeth \subseteq -2 .. 2
           /\ phase \in Nat /\ phase < S
<1>1. regime \in Regimes /\ phase \in 0 .. (S - 1)
  BY DEF TeethType
<1>2. \A d \in regime.offsets : d \in Nat /\ 16 * d <= 3 * S
  BY <1>1, RegimeFacts
<1>3. regime.reach \in {1, 2}
  BY <1>1, RegimeFacts
<1>4. Teeth \subseteq -2 .. 2
  BY <1>3 DEF Teeth
<1>5. \A d \in regime.offsets : d # Missing
  BY <1>2, Constants DEF Missing
<1>6. \A k \in Teeth : tooth[k] \in regime.offsets
  BY DEF Whole
<1>7. phase \in Nat /\ phase < S
  BY <1>1, Constants
<1> QED
  BY <1>2, <1>4, <1>5, <1>6, <1>7 DEF Whole

\* They lie either side of the target, about a period apart.
LEMMA Between ==
    ASSUME NEW t, NEW p \in Nat, p < S,
           \A k \in {-1, 0, 1} : t[k] \in Nat /\ 16 * t[k] <= 3 * S
    PROVE  /\ BefAt(t, p) \in Int /\ AftAt(t, p) \in Int /\ BefAt(t, p) <= 0 /\ AftAt(t, p) > 0
           /\ 16 * (AftAt(t, p) - BefAt(t, p)) >= 13 * S
           /\ 16 * (AftAt(t, p) - BefAt(t, p)) <= 19 * S
BY Constants DEF BefAt, AftAt

\* The bracket FindBracket comes to.
LEMMA BracketOf ==
    ASSUME NEW t, NEW p \in Nat, p < S, {-1, 0, 1} \subseteq Teeth, Teeth \subseteq -2 .. 2,
           \A k \in Teeth : t[k] \in Nat /\ 16 * t[k] <= 3 * S,
           NEW before \in Teeth, NEW after \in Teeth,
           IsBefore(before, t, p), IsAfter(after, t, p)
    PROVE  Bracket(before, after, t, p) = Around(BefAt(t, p), AftAt(t, p))
<1> USE Constants
<1>0. \A k \in -2 .. 2 : k \in {-2, -1, 0, 1, 2}
  OBVIOUS
<1>1. There(t) = Teeth
  <2>1. \A k \in Teeth : t[k] # Missing
    <3>1. TAKE k \in Teeth
    <3>2. t[k] \in Nat /\ 16 * t[k] <= 3 * S
      OBVIOUS
    <3> QED
      BY <3>2 DEF Missing
  <2> QED
    BY <2>1 DEF There
<1>2. Stamp(before, t, p) = BefAt(t, p)
  <2>1. /\ Stamp(before, t, p) <= 0
        /\ \A j \in {-1, 0, 1} : Stamp(j, t, p) <= 0 => j <= before
    BY <1>1 DEF IsBefore
  <2>2. before \in {-2, -1, 0, 1, 2} /\ t[before] \in Nat
    BY <1>0
  <2>3. before # 1 /\ before # 2
    BY <2>1, <2>2 DEF Stamp
  <2>4. before # -2
    BY <2>1 DEF Stamp
  <2>5. before = 0 <=> t[0] <= p
    BY <2>1, <2>2, <2>3 DEF Stamp
  <2> QED
    BY <2>2, <2>3, <2>4, <2>5 DEF Stamp, BefAt
<1>3. Stamp(after, t, p) = AftAt(t, p)
  <2>1. /\ Stamp(after, t, p) > 0
        /\ \A j \in {-1, 0, 1} : Stamp(j, t, p) > 0 => j >= after
    BY <1>1 DEF IsAfter
  <2>2. after \in {-2, -1, 0, 1, 2} /\ t[after] \in Nat
    BY <1>0
  <2>3. after # -1 /\ after # -2
    BY <2>1, <2>2 DEF Stamp
  <2>4. after # 2
    BY <2>1 DEF Stamp
  <2>5. after = 0 <=> t[0] > p
    BY <2>1, <2>2, <2>3 DEF Stamp
  <2> QED
    BY <2>2, <2>3, <2>4, <2>5 DEF Stamp, AftAt
<1> QED
  BY <1>2, <1>3 DEF Bracket, Around

\* With no holes all teeth are there.
LEMMA NoHoles ==
    ASSUME TeethType, ~regime.holes, \A k \in Teeth : \E prev : tooth[k] \in MayFollow(prev)
    PROVE  Whole
<1>1. regime.reach \in {1, 2}
  BY RegimeFacts DEF TeethType
<1>2. {-1, 0, 1} \subseteq Teeth
  BY <1>1 DEF Teeth
<1> QED
  BY <1>2 DEF Whole, MayFollow

\* What a present does to the target's place in the grid.
LEMMA TargetMoves ==
    ASSUME TeethType, Present
    PROVE  /\ TeethType' /\ regime' = regime /\ Teeth' = Teeth
           /\ \E n \in {0, 1, 2} :
                 /\ (phase + regime.present) \div S = n
                 /\ phase' = phase + regime.present - n * S
<1>1. /\ regime \in Regimes /\ phase \in Nat /\ phase < S
      /\ regime.present \in Nat /\ regime.present <= 2 * S
  BY RegimeFacts, Constants DEF TeethType
<1>2. regime' = regime /\ Teeth' = Teeth
  BY DEF Present, Teeth
<1>3. PICK n \in {0, 1, 2} : n * S <= phase + regime.present /\ phase + regime.present < (n + 1) * S
  <2>1. phase + regime.present \in Nat /\ phase + regime.present < 3 * S
    BY <1>1, Constants
  <2> QED
    BY <2>1, ThreeTeeth
<1>4. /\ (phase + regime.present) \div S = n
      /\ (phase + regime.present) % S = phase + regime.present - n * S
  <2>1. PICK m \in Nat : m = phase + regime.present
    BY <1>1
  <2>2. n * S <= m /\ m < (n + 1) * S
    BY <1>3, <2>1
  <2>3. m \div S = n /\ m % S = m - n * S
    BY <2>2, Passed
  <2> QED
    BY <1>1, <2>1, <2>3, Constants
<1>5. phase' = (phase + regime.present) % S /\ tooth' \in [Teeth -> regime.offsets \cup {Missing}]
  BY DEF Present
<1>6. phase' \in 0 .. (S - 1)
  BY <1>1, <1>5, DivMod
<1> QED
  BY <1>1, <1>2, <1>4, <1>5, <1>6 DEF TeethType

\* The teeth move with it.
LEMMA TeethMove ==
    ASSUME TeethType, Whole, Present
    PROVE  /\ Whole'
           /\ \E n \in {0, 1, 2} :
                 /\ phase' = phase + regime.present - n * S
                 /\ \A k \in {-1, 0, 1} : k + n \in {-1, 0, 1} => tooth'[k] = tooth[k + n]
<1>1. PICK n \in {0, 1, 2} :
         (phase + regime.present) \div S = n /\ phase' = phase + regime.present - n * S
  BY TargetMoves
<1>2. Moved(n, tooth')
  BY <1>1 DEF Present
<1>3. {-1, 0, 1} \subseteq Teeth /\ ~regime.holes /\ Teeth' = Teeth /\ regime' = regime
  BY TargetMoves DEF Whole
<1>4. \A k \in Teeth : tooth'[k] \in regime.offsets
  <2>1. TAKE k \in Teeth
  <2>2. CASE k + n \in Teeth
    BY <1>2, <2>2 DEF Moved, Whole
  <2>3. CASE k + n \notin Teeth
    BY <1>2, <1>3, <2>3 DEF Moved, MayFollow
  <2> QED
    BY <2>2, <2>3
<1>5. \A k \in {-1, 0, 1} : k + n \in {-1, 0, 1} => tooth'[k] = tooth[k + n]
  BY <1>2, <1>3 DEF Moved
<1>6. Whole'
  BY <1>3, <1>4 DEF Whole
<1> QED
  BY <1>1, <1>5, <1>6

\* One present with no frame missing: the bracket's frames stay where they are until the target
\* has passed them (either the frame before is the same, or the one after has become it or been
\* passed too), and both modes decide between the two.
LEMMA WholePresent ==
    ASSUME TeethType, Whole, Present
    PROVE  /\ Bef \in Int /\ Aft \in Int /\ Bef <= 0 /\ Aft > 0 /\ 16 * (Aft - Bef) <= 19 * S
           /\ Bef' \in Int /\ Aft' \in Int /\ Bef' <= 0 /\ Aft' > 0
           /\ 16 * (Aft' - Bef') >= 13 * S /\ 16 * (Aft' - Bef') <= 19 * S
           /\ Bef' = Bef - regime.present \/ Bef' >= Aft - regime.present
           /\ Aft' = Aft - regime.present \/ Bef' >= Aft - regime.present
           /\ sel' = SelectFrame(Around(Bef', Aft'), SelNow, Settings).st
           /\ comp' = DecideComposite(Around(Bef', Aft'), CompNow, Settings).st
           /\ op' = DecideComposite(Around(Bef', Aft'), CompNow, Settings).op
<1>1. PICK n \in {0, 1, 2} :
         /\ phase' = phase + regime.present - n * S
         /\ \A k \in {-1, 0, 1} : k + n \in {-1, 0, 1} => tooth'[k] = tooth[k + n]
  BY TeethMove
<1>2. /\ \A k \in {-1, 0, 1} : tooth[k] \in Nat /\ 16 * tooth[k] <= 3 * S
      /\ phase \in Nat /\ phase < S /\ {-1, 0, 1} \subseteq Teeth /\ Teeth \subseteq -2 .. 2
  BY WholeStamps
<1>3. TeethType' /\ Whole'
  BY TargetMoves, TeethMove
<1>4. /\ \A k \in Teeth : tooth'[k] \in Nat /\ 16 * tooth'[k] <= 3 * S
      /\ phase' \in Nat /\ phase' < S
  <2>1. regime' = regime /\ regime \in Regimes /\ Teeth' = Teeth
    BY TargetMoves DEF TeethType
  <2>2. \A d \in regime.offsets : d \in Nat /\ 16 * d <= 3 * S
    BY <2>1, RegimeFacts
  <2>3. \A k \in Teeth : tooth'[k] \in regime.offsets
    BY <1>3, <2>1 DEF Whole
  <2>4. phase' \in 0 .. (S - 1)
    BY <1>3 DEF TeethType
  <2> QED
    BY <2>2, <2>3, <2>4, Constants
<1>5. regime.present \in Nat /\ regime.present > 0 /\ regime.present <= 2 * S
  BY RegimeFacts DEF TeethType
<1>6. /\ Bef \in Int /\ Aft \in Int /\ Bef <= 0 /\ Aft > 0 /\ 16 * (Aft - Bef) <= 19 * S
  BY <1>2, Between DEF Bef, Aft
<1>7. /\ Bef' \in Int /\ Aft' \in Int /\ Bef' <= 0 /\ Aft' > 0
      /\ 16 * (Aft' - Bef') >= 13 * S /\ 16 * (Aft' - Bef') <= 19 * S
  <2>1. \A k \in {-1, 0, 1} : tooth'[k] \in Nat /\ 16 * tooth'[k] <= 3 * S
    BY <1>2, <1>4
  <2>2. Bef' = BefAt(tooth', phase') /\ Aft' = AftAt(tooth', phase')
    BY DEF Bef, Aft
  <2> QED
    BY <1>4, <2>1, <2>2, Between
<1>8. /\ Bef' = Bef - regime.present \/ Bef' >= Aft - regime.present
      /\ Aft' = Aft - regime.present \/ Bef' >= Aft - regime.present
  <2>0. \A k \in {-1, 0, 1} : tooth'[k] \in Nat /\ 16 * tooth'[k] <= 3 * S
    BY <1>2, <1>4
  <2>1. CASE n = 0
    <3>1. tooth'[-1] = tooth[-1] /\ tooth'[0] = tooth[0] /\ tooth'[1] = tooth[1]
      BY <1>1, <2>1
    <3> QED
      BY <1>1, <1>2, <1>4, <1>5, <2>0, <2>1, <3>1, Constants DEF Bef, Aft, BefAt, AftAt
  <2>2. CASE n = 1
    <3>1. tooth'[-1] = tooth[0] /\ tooth'[0] = tooth[1]
      BY <1>1, <2>2
    <3> QED
      BY <1>1, <1>2, <1>4, <1>5, <2>0, <2>2, <3>1, Constants DEF Bef, Aft, BefAt, AftAt
  <2>3. CASE n = 2
    <3>1. tooth'[-1] = tooth[1]
      BY <1>1, <2>3
    <3> QED
      BY <1>1, <1>2, <1>4, <1>5, <2>0, <2>3, <3>1, Constants DEF Bef, Aft, BefAt, AftAt
  <2> QED
    BY <2>1, <2>2, <2>3
<1>9. /\ sel' = SelectFrame(Around(Bef', Aft'), SelNow, Settings).st
      /\ comp' = DecideComposite(Around(Bef', Aft'), CompNow, Settings).st
      /\ op' = DecideComposite(Around(Bef', Aft'), CompNow, Settings).op
  <2>1. PICK before, after \in Teeth :
           /\ IsBefore(before, tooth', phase') /\ IsAfter(after, tooth', phase')
           /\ sel' = SelectFrame(Bracket(before, after, tooth', phase'), SelNow, Settings).st
           /\ comp' = DecideComposite(Bracket(before, after, tooth', phase'), CompNow, Settings).st
           /\ op' = DecideComposite(Bracket(before, after, tooth', phase'), CompNow, Settings).op
    BY DEF Present
  <2>2. Bracket(before, after, tooth', phase')
           = Around(BefAt(tooth', phase'), AftAt(tooth', phase'))
    BY <1>2, <1>4, <2>1, BracketOf
  <2> QED
    BY <2>1, <2>2 DEF Bef, Aft
<1> QED
  BY <1>6, <1>7, <1>8, <1>9

-----------------------------------------------------------------------------
(* The settings.                                                           *)

Pass == Settings.passthrough
Wide == WideGate(Settings)

\* The threshold is a quarter of the source period, or of the present period on clocks of half the
\* source's rate and slower; the band on top of it is at least the jitter of a tight source.
LEMMA Gates ==
    ASSUME regime \in Regimes
    PROVE  /\ Settings.stickiness = Band /\ Settings.srcPeriod \in {0, S}
           /\ Settings.srcPeriod = ToothGuardPeriod(S, regime.sink, TRUE)
           /\ Pass \in Nat /\ Wide \in Nat /\ Wide > Pass /\ Wide - Pass <= Band
           /\ 4 * (Wide - Pass) <= Pass
           /\ \/ 4 * Pass <= S /\ 4 * Pass >= S - 3
              \/ 2 * Pass <= S /\ 4 * Pass >= regime.present - 3 /\ regime.present >= 2 * S - 2
           /\ \A d \in regime.offsets : d <= Band /\ 16 * d <= S => d <= Wide - Pass
<1> USE Constants
<1>1. /\ regime.present \in Nat /\ regime.present <= 2 * S /\ regime.sink \in Nat
      /\ \A d \in regime.offsets : d \in Nat
  BY RegimeFacts
<1>2. /\ Settings.stickiness = Band /\ Pass = PassthroughThreshold(S, regime.present)
      /\ Settings.srcPeriod = ToothGuardPeriod(S, regime.sink, TRUE)
  BY DEF Settings, Pass
<1>3. ToothGuardPeriod(S, regime.sink, TRUE) \in {0, S}
  BY DEF ToothGuardPeriod
<1>4. \/ Pass = S \div 4
      \/ Pass = regime.present \div 4 /\ S \div 2 <= regime.present \div 4
  BY <1>2 DEF PassthroughThreshold
<1>5. /\ S \div 4 \in Nat /\ 4 * (S \div 4) <= S /\ 4 * (S \div 4) >= S - 3
      /\ S \div 2 \in Nat /\ 2 * (S \div 2) >= S - 1
      /\ regime.present \div 4 \in Nat /\ 4 * (regime.present \div 4) <= regime.present
      /\ 4 * (regime.present \div 4) >= regime.present - 3
  BY <1>1
<1>6. /\ Pass \in Nat /\ 4 * Pass >= S - 3
      /\ \/ 4 * Pass <= S /\ 4 * Pass >= S - 3
         \/ 2 * Pass <= S /\ 4 * Pass >= regime.present - 3 /\ regime.present >= 2 * S - 2
  BY <1>1, <1>4, <1>5
<1>7. Wide = Pass + IF Band < Pass \div 4 THEN Band ELSE Pass \div 4
  BY <1>2 DEF Wide, WideGate, Pass
<1>8. Pass \div 4 \in Nat /\ 4 * (Pass \div 4) <= Pass /\ 4 * (Pass \div 4) >= Pass - 3
  BY <1>6
<1> HIDE DEF Pass, Wide
<1>9. Pass \div 4 > 0
  BY <1>6, <1>8
<1>10. Wide \in Nat /\ Wide > Pass /\ Wide - Pass <= Band /\ 4 * (Wide - Pass) <= Pass
  BY <1>6, <1>7, <1>8, <1>9
<1>11. \A d \in regime.offsets : d <= Band /\ 16 * d <= S => d <= Wide - Pass
  <2>1. TAKE d \in regime.offsets
  <2>2. HAVE d <= Band /\ 16 * d <= S
  <2>3. d \in Nat
    BY <1>1
  <2>4. 4 * d <= Pass
    BY <1>6, <2>2, <2>3
  <2>5. d <= Pass \div 4
    BY <1>6, <2>3, <2>4
  <2> QED
    BY <1>6, <1>7, <1>8, <2>2, <2>3, <2>5
<1> QED
  BY <1>2, <1>3, <1>6, <1>10, <1>11

-----------------------------------------------------------------------------
(* No frame missing: what both modes keep to, whatever the clock.          *)

\* What the modes remember, and that they remember nothing before the first present.
Decided ==
    /\ sel \in Selections /\ comp \in CompositeStates
    /\ op \in {"none", "before", "after", "synth", "comb", "hold"}
    /\ op = "none" => sel.shown = Never /\ ~sel.pickAfter /\ comp = FirstComposite

\* The nearest mode is within the bracket.
NearBracket == op # "none" => Bef <= sel.shown /\ sel.shown <= Aft

\* The last target of the blend modes is less than 7/8 of a period back.  A blend was shown at it,
\* with no frame near before it; a frame that was passed is near it, and the present after it finds
\* that frame before its target, or still after it.
Composed ==
    op # "none" =>
       /\ comp.target <= 0 /\ -8 * comp.target < 7 * S
       /\ comp.synth => /\ comp.out = comp.target
                        /\ Bef >= comp.target \/ comp.target - Bef >= Pass
       /\ ~comp.synth => /\ comp.target - Wide < comp.out /\ comp.out < comp.target + Wide
                         /\ comp.out <= Bef \/ comp.out = Aft

Gate == IF comp.synth THEN Pass ELSE Wide

\* What a present of the blend modes comes to: it passes a frame, blends, or holds on the comb.
Outcome ==
    \/ /\ PassesBefore(Bef', Aft', Gate, comp, Settings) /\ op' = "before"
       /\ comp' = [out |-> Bef', target |-> 0, synth |-> FALSE, passAfter |-> FALSE]
    \/ /\ PassesAfter(Bef', Aft', Gate, comp, Settings) /\ op' = "after"
       /\ comp' = [out |-> Aft', target |-> 0, synth |-> FALSE, passAfter |-> TRUE]
    \/ /\ Apart(Bef', Aft', Gate) /\ ~OnComb(CompNow, Settings) /\ op' = "synth"
       /\ comp' = [out |-> 0, target |-> 0, synth |-> TRUE, passAfter |-> comp.passAfter]
    \/ /\ Apart(Bef', Aft', Gate) /\ OnComb(CompNow, Settings) /\ op' = "comb"
       /\ comp' = CompNow

\* The memory as the next present sees it.
LEMMA NowFacts ==
    ASSUME regime \in Regimes, Decided
    PROVE  /\ SelNow \in Selections /\ SelNow.pickAfter = sel.pickAfter
           /\ SelNow.shown = Back(sel.shown)
           /\ CompNow \in CompositeStates
           /\ CompNow.out = Back(comp.out) /\ CompNow.target = Back(comp.target)
           /\ CompNow.synth = comp.synth /\ CompNow.passAfter = comp.passAfter
           /\ PassthroughGate(CompNow, Settings) = Gate
           /\ Back(Never) = Never
           /\ \A ts \in Int : ts > -4 * S => Back(ts) = ts - regime.present
<1>1. regime.present \in Nat
  BY RegimeFacts
<1>2. \A ts \in Int : Back(ts) \in Int
  BY <1>1, Constants DEF Back
<1>3. sel \in Selections /\ comp \in CompositeStates
  BY DEF Decided
<1>4. /\ sel.shown \in Int /\ sel.pickAfter \in BOOLEAN
      /\ comp.out \in Int /\ comp.target \in Int /\ comp.synth \in BOOLEAN
      /\ comp.passAfter \in BOOLEAN
  BY <1>3 DEF Selections, CompositeStates
<1>5. SelNow \in Selections
  BY <1>2, <1>3, <1>4 DEF SelNow, Selections
<1>6. SelNow.pickAfter = sel.pickAfter /\ SelNow.shown = Back(sel.shown)
  BY <1>3 DEF SelNow, Selections
<1>7. CompNow \in CompositeStates
  BY <1>2, <1>3, <1>4 DEF CompNow, CompositeStates
<1>8. /\ CompNow.out = Back(comp.out) /\ CompNow.target = Back(comp.target)
      /\ CompNow.synth = comp.synth /\ CompNow.passAfter = comp.passAfter
  BY <1>3 DEF CompNow, CompositeStates
<1>9. PassthroughGate(CompNow, Settings) = Gate
  BY <1>8 DEF PassthroughGate, Gate, Pass, Wide
<1>10. Back(Never) = Never /\ \A ts \in Int : ts > -4 * S => Back(ts) = ts - regime.present
  BY <1>1, Constants DEF Back
<1> QED
  BY <1>5, <1>6, <1>7, <1>8, <1>9, <1>10

\* The nearest mode stays within the bracket.
LEMMA NearStep ==
    ASSUME TeethType, Whole, Decided, NearBracket, Present
    PROVE  /\ sel' \in Selections /\ NearBracket'
           /\ op # "none" => SelNow.shown = sel.shown - regime.present
           /\ op = "none" => SelNow.shown < Bef'
<1>1. /\ regime \in Regimes /\ Settings.stickiness \in Nat
      /\ regime.present \in Nat /\ regime.present > 0
  BY Gates, RegimeFacts, Constants DEF TeethType
<1> DEFINE x == Bef'
           y == Aft'
<1>2. /\ Bef \in Int /\ Aft \in Int /\ Bef <= 0 /\ Aft > 0 /\ 16 * (Aft - Bef) <= 19 * S
      /\ x \in Int /\ y \in Int /\ x <= 0 /\ y > 0 /\ 16 * (y - x) <= 19 * S
      /\ x = Bef - regime.present \/ x >= Aft - regime.present
      /\ y = Aft - regime.present \/ x >= Aft - regime.present
      /\ sel' = SelectFrame(Around(x, y), SelNow, Settings).st
  BY WholePresent
<1> HIDE DEF x, y
<1>3. SelNow \in Selections /\ SelNow.shown \in Int /\ sel.shown \in Int
  BY <1>1, NowFacts DEF Selections, Decided
<1>4. /\ sel' \in Selections
      /\ SelNow.shown < x => sel'.shown \in {x, y}
      /\ x <= SelNow.shown /\ SelNow.shown < y => sel'.shown \in {y, SelNow.shown}
      /\ y <= SelNow.shown => sel'.shown = SelNow.shown
  <2>1. Selects(x, y, SelNow, Settings, sel')
    BY <1>1, <1>2, <1>3, SelectBetween
  <2> QED
    BY <2>1 DEF Selects
<1>5. op # "none" => SelNow.shown = sel.shown - regime.present /\ SelNow.shown <= y
  <2>1. HAVE op # "none"
  <2>2. Bef <= sel.shown /\ sel.shown <= Aft
    BY <2>1 DEF NearBracket
  <2>3. sel.shown > -4 * S
    BY <1>2, <1>3, <2>2, Constants
  <2>4. SelNow.shown = sel.shown - regime.present
    BY <1>1, <1>3, <2>3, NowFacts
  <2> QED
    BY <1>1, <1>2, <1>3, <2>2, <2>4
<1>6. op = "none" => SelNow.shown < x
  <2>1. HAVE op = "none"
  <2>2. SelNow.shown = Never
    BY <1>1, <2>1, NowFacts DEF Decided
  <2> QED
    BY <1>2, <2>2, Constants
<1>7. SelNow.shown <= y
  BY <1>2, <1>3, <1>5, <1>6
<1>8. x <= sel'.shown /\ sel'.shown <= y
  BY <1>2, <1>3, <1>4, <1>7
<1> QED
  BY <1>4, <1>5, <1>6, <1>8 DEF NearBracket, x, y

\* The relation Composed asks for is still there when the target has moved on, seen from it.
LEMMA NowComposed ==
    ASSUME TeethType, Whole, Decided, Composed, Present, op # "none"
    PROVE  /\ CompNow.target = comp.target - regime.present
           /\ CompNow.out = comp.out - regime.present
           /\ comp.target \in Int /\ comp.out \in Int /\ comp.synth \in BOOLEAN
           /\ comp.passAfter \in BOOLEAN
           /\ CompNow.target < 0 /\ CompNow.out <= Aft'
           /\ comp.synth => /\ CompNow.out = CompNow.target
                            /\ Bef' >= CompNow.target \/ CompNow.target - Bef' >= Pass
           /\ ~comp.synth => /\ CompNow.target - Wide < CompNow.out
                             /\ CompNow.out < CompNow.target + Wide
                             /\ CompNow.out <= Bef' \/ CompNow.out = Aft'
<1>1. /\ regime \in Regimes /\ regime.present \in Nat /\ regime.present > 0
      /\ Pass \in Nat /\ Wide \in Nat /\ Wide < S
      /\ comp.target \in Int /\ comp.out \in Int /\ comp.synth \in BOOLEAN
      /\ comp.passAfter \in BOOLEAN
  <2>1. regime \in Regimes
    BY DEF TeethType
  <2>2. regime.present \in Nat /\ regime.present > 0
    BY <2>1, RegimeFacts
  <2>3. Pass \in Nat /\ Wide \in Nat /\ Wide < S
    <3>1. /\ Pass \in Nat /\ Wide \in Nat /\ 4 * (Wide - Pass) <= Pass
          /\ 4 * Pass <= S \/ 2 * Pass <= S
      BY <2>1, Gates
    <3> QED
      BY <3>1, Constants
  <2> QED
    BY <2>1, <2>2, <2>3 DEF Decided, CompositeStates
<1>2. /\ Bef \in Int /\ Aft \in Int /\ Bef <= 0 /\ Aft > 0 /\ 16 * (Aft - Bef) <= 19 * S
      /\ Bef' \in Int /\ Aft' \in Int /\ Bef' <= 0 /\ Aft' > 0
      /\ Bef' = Bef - regime.present \/ Bef' >= Aft - regime.present
      /\ Aft' = Aft - regime.present \/ Bef' >= Aft - regime.present
  BY WholePresent
<1>3. /\ comp.target <= 0 /\ -8 * comp.target < 7 * S
      /\ comp.synth => /\ comp.out = comp.target
                       /\ Bef >= comp.target \/ comp.target - Bef >= Pass
      /\ ~comp.synth => /\ comp.target - Wide < comp.out /\ comp.out < comp.target + Wide
                        /\ comp.out <= Bef \/ comp.out = Aft
  BY DEF Composed
<1>4. comp.target > -4 * S /\ comp.out > -4 * S
  BY <1>1, <1>3, Constants
<1>5. CompNow.target = comp.target - regime.present /\ CompNow.out = comp.out - regime.present
  BY <1>1, <1>4, NowFacts
<1>6. CompNow.target < 0
  BY <1>1, <1>3, <1>5
<1>7. CASE comp.synth
  BY <1>1, <1>2, <1>3, <1>5, <1>6, <1>7
<1>8. CASE ~comp.synth
  BY <1>1, <1>2, <1>3, <1>5, <1>6, <1>8
<1> QED
  BY <1>1, <1>5, <1>6, <1>7, <1>8

\* A present never holds because what it decided for is older than what is shown.
LEMMA WholeOutcome ==
    ASSUME TeethType, Whole, Decided, Composed, Present
    PROVE  Outcome
<1>1. /\ regime \in Regimes /\ Settings.stickiness \in Nat /\ Settings.srcPeriod \in Nat
      /\ Settings.stickiness = Band /\ regime.present \in Nat
  BY Gates, RegimeFacts, Constants DEF TeethType
<1> DEFINE x == Bef'
           y == Aft'
<1>2. /\ Bef \in Int /\ Aft \in Int /\ Bef <= 0 /\ Aft > 0 /\ 16 * (Aft - Bef) <= 19 * S
      /\ x \in Int /\ y \in Int /\ x <= 0 /\ y > 0 /\ 16 * (y - x) >= 13 * S
      /\ y = Aft - regime.present \/ x >= Aft - regime.present
      /\ comp' = DecideComposite(Around(x, y), CompNow, Settings).st
      /\ op' = DecideComposite(Around(x, y), CompNow, Settings).op
  BY WholePresent
<1>3. /\ CompNow \in CompositeStates /\ PassthroughGate(CompNow, Settings) = Gate
      /\ CompNow.synth = comp.synth /\ CompNow.passAfter = comp.passAfter
      /\ comp.synth \in BOOLEAN
  BY <1>1, NowFacts DEF Decided, CompositeStates
<1>4. /\ Pass \in Nat /\ Wide \in Nat /\ Gate \in Int
      /\ Gate = IF comp.synth THEN Pass ELSE Wide
      /\ 4 * (Wide - Pass) <= Pass
      /\ 4 * Pass <= S \/ (2 * Pass <= S /\ regime.present >= 2 * S - 2)
  BY <1>1, Gates DEF Gate
<1>5. /\ CompNow.out \in Int /\ CompNow.out <= y
      /\ op # "none" =>
            /\ comp.synth => /\ CompNow.out < 0
                             /\ x >= CompNow.out \/ CompNow.out - x >= Pass
            /\ ~comp.synth => /\ CompNow.out <= x \/ CompNow.out = y
                              /\ CompNow.out < Wide
  <2>1. CompNow.out \in Int
    BY <1>3 DEF CompositeStates
  <2>2. CASE op = "none"
    <3>1. CompNow.out = Never
      BY <1>1, <2>2, NowFacts DEF Decided, FirstComposite
    <3> QED
      BY <1>2, <2>1, <2>2, <3>1, Constants
  <2>3. CASE op # "none"
    <3>1. /\ CompNow.target < 0 /\ CompNow.out <= y
          /\ comp.synth => /\ CompNow.out = CompNow.target
                           /\ x >= CompNow.target \/ CompNow.target - x >= Pass
          /\ ~comp.synth => /\ CompNow.out < CompNow.target + Wide
                            /\ CompNow.out <= x \/ CompNow.out = y
      BY <2>3, NowComposed
    <3>2. CompNow.target \in Int
      BY <1>3 DEF CompositeStates
    <3> QED
      BY <1>4, <2>1, <3>1, <3>2
  <2> QED
    BY <2>2, <2>3
<1>6. op = "none" => CompNow.out < x
  <2>1. HAVE op = "none"
  <2>2. CompNow.out = Never
    BY <1>1, <2>1, NowFacts DEF Decided, FirstComposite
  <2>3. x \in Int /\ 16 * x > -32 * S
    BY WholePresent, Constants DEF x
  <2> HIDE DEF x
  <2>4. Never < x
    BY <2>3, Constants
  <2> QED
    BY <2>2, <2>4
<1> HIDE DEF x, y
<1>7. Decides(x, y, Gate, CompNow, Settings, DecideComposite(Around(x, y), CompNow, Settings))
  BY <1>1, <1>2, <1>3, <1>4, DecideBetween
<1>8. ~(y < CompNow.out)
  BY <1>2, <1>5
<1>9. Apart(x, y, Gate) => ~(0 < CompNow.out)
  BY <1>2, <1>3, <1>4, <1>5, <1>6 DEF Apart
<1>10. PassesBefore(x, y, Gate, CompNow, Settings) => ~(x < CompNow.out)
  <2>1. SUFFICES ASSUME -x < Gate, y < Gate => Nearer(x, y, CompNow.passAfter, Settings),
                        x < CompNow.out
                 PROVE  FALSE
    BY DEF PassesBefore
  <2>2. op # "none"
    BY <1>2, <1>5, <1>6, <2>1
  <2>3. CASE comp.synth
    BY <1>2, <1>4, <1>5, <2>1, <2>2, <2>3
  <2>4. CASE ~comp.synth
    <3>1. CompNow.out = y /\ y < Wide /\ Gate = Wide
      BY <1>2, <1>4, <1>5, <2>1, <2>2, <2>4
    <3>2. y = Aft - regime.present
      <4>1. CompNow.out <= Aft - regime.present
        <5>1. CompNow.out = comp.out - regime.present /\ comp.out \in Int
          BY <2>2, NowComposed
        <5>2. comp.out <= Bef \/ comp.out = Aft
          BY <2>2, <2>4 DEF Composed
        <5> QED
          BY <1>1, <1>2, <5>1, <5>2
      <4> QED
        BY <1>1, <1>2, <1>5, <2>1, <3>1, <4>1
    <3>3. CASE 4 * Pass <= S
      BY <1>2, <1>4, <2>1, <3>1, <3>3, Constants
    <3>4. CASE 2 * Pass <= S /\ regime.present >= 2 * S - 2
      BY <1>1, <1>2, <3>2, <3>4, Constants
    <3> QED
      BY <1>4, <3>3, <3>4
  <2> QED
    BY <1>3, <2>3, <2>4
<1> DEFINE r == DecideComposite(Around(x, y), CompNow, Settings)
<1>11. /\ PassesBefore(x, y, Gate, CompNow, Settings) <=> PassesBefore(x, y, Gate, comp, Settings)
       /\ PassesAfter(x, y, Gate, CompNow, Settings) <=> PassesAfter(x, y, Gate, comp, Settings)
  BY <1>3 DEF PassesBefore, PassesAfter
<1>12. op' = r.op /\ comp' = r.st
  BY <1>2
<1> HIDE DEF r
<1>13. \/ /\ PassesBefore(x, y, Gate, CompNow, Settings) /\ r.op = "before"
          /\ r.st = [out |-> x, target |-> 0, synth |-> FALSE, passAfter |-> FALSE]
       \/ /\ PassesAfter(x, y, Gate, CompNow, Settings) /\ r.op = "after"
          /\ r.st = [out |-> y, target |-> 0, synth |-> FALSE, passAfter |-> TRUE]
       \/ /\ Apart(x, y, Gate) /\ ~OnComb(CompNow, Settings) /\ r.op = "synth"
          /\ r.st = [out |-> 0, target |-> 0, synth |-> TRUE, passAfter |-> CompNow.passAfter]
       \/ Apart(x, y, Gate) /\ OnComb(CompNow, Settings) /\ r.op = "comb" /\ r.st = CompNow
  <2>1. Decides(x, y, Gate, CompNow, Settings, r)
    BY <1>7 DEF r
  <2> QED
    BY <1>8, <1>9, <1>10, <2>1 DEF Decides
<1> QED
  BY <1>3, <1>11, <1>12, <1>13 DEF Outcome, x, y

\* The comb holds a present for less than 7/8 of a period.
LEMMA CombBound ==
    ASSUME regime \in Regimes, NEW s \in CompositeStates, OnComb(s, Settings)
    PROVE  -8 * s.target < 7 * S /\ Settings.srcPeriod = S
<1>1. Settings.srcPeriod \in {0, S}
  BY Gates
<1>2. /\ Settings.srcPeriod > 0 /\ s.target \in Int
      /\ -s.target < (Settings.srcPeriod * 7) \div 8
  BY DEF OnComb, CompositeStates
<1>3. Settings.srcPeriod = S
  BY <1>1, <1>2
<1>4. -s.target < (S * 7) \div 8
  BY <1>2, <1>3
<1>5. (S * 7) \div 8 \in Int /\ 8 * ((S * 7) \div 8) <= S * 7
  BY Constants
<1> QED
  BY <1>2, <1>3, <1>4, <1>5, Constants

\* What the blend modes keep to is kept, and what they decided is one of four things.
LEMMA ComposedStep ==
    ASSUME TeethType, Whole, Decided, Composed, Present
    PROVE  /\ comp' \in CompositeStates /\ Composed'
           /\ op' \in {"before", "after", "synth", "comb"}
           /\ op' # "comb" => comp'.target = 0 /\ comp'.synth = (op' = "synth")
<1>1. /\ regime \in Regimes /\ regime' = regime
      /\ Pass \in Nat /\ Wide \in Nat /\ Pass < Wide /\ Pass' = Pass /\ Wide' = Wide
  <2>1. regime \in Regimes /\ regime' = regime
    BY TargetMoves DEF TeethType
  <2>2. Pass' = Pass /\ Wide' = Wide
    BY <2>1 DEF Pass, Wide, WideGate, Settings
  <2> QED
    BY <2>1, <2>2, Gates
<1> DEFINE x == Bef'
           y == Aft'
<1>2. x \in Int /\ y \in Int /\ x <= 0 /\ y > 0
  BY WholePresent
<1>3. /\ comp \in CompositeStates /\ comp.synth \in BOOLEAN /\ comp.passAfter \in BOOLEAN
      /\ CompNow \in CompositeStates
  BY <1>1, NowFacts DEF Decided, CompositeStates
<1>4. Gate \in Int /\ Gate >= Pass /\ Gate <= Wide
  BY <1>1, <1>3 DEF Gate
<1>5. Outcome
  BY WholeOutcome
<1> HIDE DEF x, y
<1>6. CASE /\ PassesBefore(x, y, Gate, comp, Settings) /\ op' = "before"
           /\ comp' = [out |-> x, target |-> 0, synth |-> FALSE, passAfter |-> FALSE]
  <2>1. x > 0 - Gate
    <3>1. -x < Gate
      BY <1>6 DEF PassesBefore
    <3> QED
      BY <1>2, <1>4, <3>1
  <2>2. comp'.out = x /\ comp'.target = 0 /\ comp'.synth = FALSE /\ comp' \in CompositeStates
    BY <1>2, <1>6 DEF CompositeStates
  <2>3. /\ comp'.target <= 0 /\ -8 * comp'.target < 7 * S /\ ~comp'.synth
        /\ comp'.target - Wide < comp'.out /\ comp'.out < comp'.target + Wide
        /\ comp'.out <= x \/ comp'.out = y
    <3>1. 0 - Wide < x /\ x < 0 + Wide /\ x <= x
      BY <1>1, <1>2, <1>4, <2>1
    <3>2. 0 <= 0 /\ -8 * 0 < 7 * S
      BY Constants
    <3> QED
      BY <2>2, <3>1, <3>2
  <2>4. Composed'
    BY <1>1, <2>3 DEF Composed, x, y
  <2> QED
    BY <1>6, <2>2, <2>4
<1>7. CASE /\ PassesAfter(x, y, Gate, comp, Settings) /\ op' = "after"
           /\ comp' = [out |-> y, target |-> 0, synth |-> FALSE, passAfter |-> TRUE]
  <2>1. y < Gate
    BY <1>7 DEF PassesAfter
  <2>2. comp'.out = y /\ comp'.target = 0 /\ comp'.synth = FALSE /\ comp' \in CompositeStates
    BY <1>2, <1>7 DEF CompositeStates
  <2>3. /\ comp'.target <= 0 /\ -8 * comp'.target < 7 * S /\ ~comp'.synth
        /\ comp'.target - Wide < comp'.out /\ comp'.out < comp'.target + Wide
        /\ comp'.out <= x \/ comp'.out = y
    BY <1>1, <1>2, <1>4, <2>1, <2>2, Constants
  <2>4. Composed'
    BY <1>1, <2>3 DEF Composed, x, y
  <2> QED
    BY <1>7, <2>2, <2>4
<1>8. CASE /\ Apart(x, y, Gate) /\ ~OnComb(CompNow, Settings) /\ op' = "synth"
           /\ comp' = [out |-> 0, target |-> 0, synth |-> TRUE, passAfter |-> comp.passAfter]
  <2>1. 0 - x >= Gate
    <3>1. -x >= Gate
      BY <1>8 DEF Apart
    <3> QED
      BY <1>2, <1>4, <3>1
  <2>2. comp'.out = 0 /\ comp'.target = 0 /\ comp'.synth = TRUE /\ comp' \in CompositeStates
    BY <1>3, <1>8 DEF CompositeStates
  <2>3. /\ comp'.target <= 0 /\ -8 * comp'.target < 7 * S /\ comp'.synth
        /\ comp'.out = comp'.target
        /\ comp'.target - x >= Pass
    <3>1. 0 - x >= Pass
      BY <1>1, <1>2, <1>4, <2>1
    <3>2. 0 <= 0 /\ -8 * 0 < 7 * S
      BY Constants
    <3> QED
      BY <2>2, <3>1, <3>2
  <2>4. Composed'
    BY <1>1, <2>3 DEF Composed, x, y
  <2> QED
    BY <1>8, <2>2, <2>4
<1>9. CASE /\ Apart(x, y, Gate) /\ OnComb(CompNow, Settings) /\ op' = "comb"
           /\ comp' = CompNow
  <2>1. -8 * CompNow.target < 7 * S
    BY <1>1, <1>3, <1>9, CombBound
  <2>2. op # "none"
    <3>1. SUFFICES ASSUME op = "none" PROVE FALSE
      OBVIOUS
    <3>2. CompNow.target = Never
      BY <1>1, <3>1, NowFacts DEF Decided, FirstComposite
    <3> QED
      BY <1>9, <3>2 DEF OnComb
  <2>3. /\ CompNow.target < 0 /\ CompNow.target \in Int
        /\ comp.synth => /\ CompNow.out = CompNow.target
                         /\ x >= CompNow.target \/ CompNow.target - x >= Pass
        /\ ~comp.synth => /\ CompNow.target - Wide < CompNow.out
                          /\ CompNow.out < CompNow.target + Wide
                          /\ CompNow.out <= x \/ CompNow.out = y
    BY <1>3, <2>2, NowComposed DEF CompositeStates, x, y
  <2>4. CompNow.synth = comp.synth
    BY <1>1, NowFacts
  <2>5. Composed'
    BY <1>1, <1>9, <2>1, <2>3, <2>4 DEF Composed, x, y
  <2> QED
    BY <1>3, <1>9, <2>5
<1> QED
  BY <1>5, <1>6, <1>7, <1>8, <1>9 DEF Outcome, x, y

-----------------------------------------------------------------------------
(* Frames missing: locked on the grid, at the source's rate.               *)

\* No two teeth in a row are missing.
Alternate(t) == \A k \in {-1, 0, 1, 2} : t[k] = Missing => t[k - 1] # Missing

\* Each present both modes show the target's frame where there is one.  Where there is none the
\* blend modes blend, and the nearest mode shows a frame next to the gap.
Covered ==
    regime.holes =>
       /\ phase = 0 /\ Alternate(tooth)
       /\ op # "none" =>
             /\ tooth[0] # Missing =>
                   sel.shown = tooth[0] /\ comp.out = tooth[0] /\ ~comp.synth /\ op # "synth"
             /\ tooth[0] = Missing =>
                   /\ sel.shown \in {tooth[-1] - S, S + tooth[1]}
                   /\ comp.out = 0 /\ comp.synth /\ op = "synth"
             /\ comp.target = 0

\* The brackets there are around such a target.
HoledAround(t, x, y) ==
    /\ x <= 0 /\ y > 0 /\ x >= -2 * S
    /\ \/ t[0] = 0 /\ x = 0 /\ y >= S
       \/ t[0] \notin {0, Missing} /\ y = t[0] /\ 16 * x <= -13 * S
       \/ t[0] = Missing /\ x = t[-1] - S /\ y = S + t[1]

\* The bracket where frames are missing.
LEMMA HoledBracket ==
    ASSUME NEW t, Teeth = -2 .. 2, Alternate(t),
           \A k \in Teeth : t[k] = Missing \/ (t[k] \in Nat /\ 16 * t[k] <= 3 * S),
           NEW before \in Teeth, NEW after \in Teeth,
           IsBefore(before, t, 0), IsAfter(after, t, 0)
    PROVE  \E x, y \in Int : /\ Bracket(before, after, t, 0) = Around(x, y)
                             /\ HoledAround(t, x, y)
<1> USE Constants
<1>0. \A k \in Teeth : k \in {-2, -1, 0, 1, 2}
  OBVIOUS
<1>1. /\ \A k \in {-2, -1, 0, 1, 2} : t[k] = 2 * S \/ (t[k] \in Nat /\ 16 * t[k] <= 3 * S)
      /\ t[0] = 2 * S => t[-1] # 2 * S
      /\ t[1] = 2 * S => t[0] # 2 * S
  <2>1. \A k \in {-2, -1, 0, 1, 2} : k \in Teeth
    OBVIOUS
  <2>2. t[0] = 2 * S => t[0 - 1] # 2 * S
    BY DEF Alternate, Missing
  <2>3. t[1] = 2 * S => t[1 - 1] # 2 * S
    BY DEF Alternate, Missing
  <2> QED
    BY <2>1, <2>2, <2>3 DEF Missing
<1>2. /\ before \in {-2, -1, 0, 1, 2} /\ t[before] # 2 * S
      /\ before * S + t[before] - 0 <= 0
      /\ \A j \in {-2, -1, 0, 1, 2} : t[j] # 2 * S /\ j * S + t[j] - 0 <= 0 => j <= before
  BY <1>0 DEF IsBefore, There, Stamp, Missing
<1>3. /\ after \in {-2, -1, 0, 1, 2} /\ t[after] # 2 * S
      /\ after * S + t[after] - 0 > 0
      /\ \A j \in {-2, -1, 0, 1, 2} : t[j] # 2 * S /\ j * S + t[j] - 0 > 0 => j >= after
  BY <1>0 DEF IsAfter, There, Stamp, Missing
<1> DEFINE x == before * S + t[before] - 0
           y == after * S + t[after] - 0
<1>4. /\ before = -2 => x = t[-2] - 2 * S
      /\ before = -1 => x = t[-1] - S
      /\ before = 0 => x = t[0]
      /\ before = 1 => x = S + t[1]
      /\ before = 2 => x = 2 * S + t[2]
      /\ after = -2 => y = t[-2] - 2 * S
      /\ after = -1 => y = t[-1] - S
      /\ after = 0 => y = t[0]
      /\ after = 1 => y = S + t[1]
      /\ after = 2 => y = 2 * S + t[2]
  <2>1. t[-2] \in Int /\ t[-1] \in Int /\ t[0] \in Int /\ t[1] \in Int /\ t[2] \in Int
    BY <1>1
  <2>2. /\ -2 * S + t[-2] - 0 = t[-2] - 2 * S
        /\ -1 * S + t[-1] - 0 = t[-1] - S
        /\ 0 * S + t[0] - 0 = t[0]
        /\ 1 * S + t[1] - 0 = S + t[1]
        /\ 2 * S + t[2] - 0 = 2 * S + t[2]
    BY <2>1
  <2> QED
    BY <2>2
<1>5. /\ t[-1] # 2 * S /\ t[-1] - S <= 0 => -1 <= before
      /\ t[0] # 2 * S /\ t[0] <= 0 => 0 <= before
      /\ t[0] # 2 * S /\ t[0] > 0 => 0 >= after
      /\ t[1] # 2 * S /\ S + t[1] > 0 => 1 >= after
  <2>1. /\ t[-1] # 2 * S /\ -1 * S + t[-1] - 0 <= 0 => -1 <= before
        /\ t[0] # 2 * S /\ 0 * S + t[0] - 0 <= 0 => 0 <= before
    BY <1>2
  <2>2. /\ t[0] # 2 * S /\ 0 * S + t[0] - 0 > 0 => 0 >= after
        /\ t[1] # 2 * S /\ 1 * S + t[1] - 0 > 0 => 1 >= after
    BY <1>3
  <2>3. t[-1] \in Nat /\ t[0] \in Nat /\ t[1] \in Nat
    BY <1>1
  <2> QED
    BY <2>1, <2>2, <2>3
<1>6. x <= 0 /\ y > 0 /\ t[before] # 2 * S /\ t[after] # 2 * S
  BY <1>2, <1>3
<1>7. before \in {-2, -1, 0, 1, 2} /\ after \in {-2, -1, 0, 1, 2}
  BY <1>2, <1>3
<1>8. Bracket(before, after, t, 0) = Around(x, y)
  BY DEF Bracket, Around, Stamp
<1> HIDE DEF x, y
<1>9. x \in Int /\ y \in Int
  BY <1>1, <1>4, <1>7
<1>10. before # 1 /\ before # 2 /\ after # -1 /\ after # -2
  BY <1>1, <1>4, <1>6, <1>7
<1>11. HoledAround(t, x, y)
  <2>0. x >= -2 * S
    BY <1>1, <1>4, <1>7
  <2>1. CASE t[0] = 0
    <3>1. before = 0 /\ after # 0
      BY <1>4, <1>5, <1>6, <1>7, <1>10, <2>1
    <3>2. x = 0 /\ y >= S
      BY <1>1, <1>4, <1>6, <1>7, <1>10, <2>1, <3>1
    <3> QED
      BY <1>6, <2>0, <2>1, <3>2 DEF HoledAround
  <2>2. CASE t[0] # 0 /\ t[0] # 2 * S
    <3>1. t[0] > 0
      BY <1>1, <2>2
    <3>2. before # 0 /\ after = 0
      <4>1. t[0] \in Nat /\ 0 >= after
        BY <1>1, <1>5, <2>2, <3>1
      <4>2. before # 0
        BY <1>4, <1>6, <3>1, <4>1
      <4> QED
        BY <1>7, <1>10, <4>1, <4>2
    <3>3. y = t[0] /\ 16 * x <= -13 * S
      BY <1>1, <1>4, <1>6, <1>7, <1>10, <3>2
    <3> QED
      BY <1>6, <2>0, <2>2, <3>3 DEF HoledAround, Missing
  <2>3. CASE t[0] = 2 * S
    <3>1. /\ t[-1] # 2 * S /\ t[1] # 2 * S
          /\ t[-1] \in Nat /\ 16 * t[-1] <= 3 * S /\ t[1] \in Nat
      BY <1>1, <2>3
    <3>2. before # 0 /\ after # 0
      BY <1>6, <2>3
    <3>3. before = -1 /\ after = 1
      BY <1>5, <1>7, <1>10, <3>1, <3>2
    <3> QED
      BY <1>4, <1>6, <2>0, <2>3, <3>3 DEF HoledAround, Missing
  <2> QED
    BY <2>1, <2>2, <2>3
<1> QED
  BY <1>8, <1>9, <1>11

\* The teeth of a grid with frames missing, one period on.
LEMMA HoledMoves ==
    ASSUME TeethType, regime.holes, phase = 0, Alternate(tooth), Present
    PROVE  /\ phase' = 0 /\ Alternate(tooth') /\ Teeth = -2 .. 2
           /\ \A k \in Teeth : tooth'[k] = Missing \/ (tooth'[k] \in Nat /\ 16 * tooth'[k] <= 3 * S)
           /\ tooth'[-2] = tooth[-1] /\ tooth'[-1] = tooth[0] /\ tooth'[0] = tooth[1]
<1>1. /\ regime.present = S /\ regime.reach = 2
      /\ \A d \in regime.offsets : d \in Nat /\ 16 * d <= 3 * S
  BY RegimeFacts DEF TeethType
<1>2. Teeth = -2 .. 2
  BY <1>1 DEF Teeth
<1>3. PICK n \in {0, 1, 2} : (phase + S) \div S = n /\ phase' = phase + S - n * S
  BY <1>1, TargetMoves
<1>4. TeethType' /\ regime' = regime /\ Teeth' = Teeth
  BY TargetMoves
<1>5. n = 1 /\ phase' = 0
  BY <1>3, <1>4, Constants DEF TeethType
<1>6. Moved(1, tooth')
  BY <1>1, <1>3, <1>5 DEF Present
<1>7. /\ tooth'[-2] = tooth[-1] /\ tooth'[-1] = tooth[0] /\ tooth'[0] = tooth[1]
      /\ tooth'[1] = tooth[2]
      /\ tooth'[2] \in MayFollow(tooth'[1])
  <2>1. \A k \in -2 .. 2 : IF k + 1 \in -2 .. 2 THEN tooth'[k] = tooth[k + 1]
                                              ELSE tooth'[k] \in MayFollow(tooth'[k - 1])
    BY <1>2, <1>6 DEF Moved
  <2>2. /\ tooth'[-2] = tooth[-2 + 1] /\ tooth'[-1] = tooth[-1 + 1] /\ tooth'[0] = tooth[0 + 1]
        /\ tooth'[1] = tooth[1 + 1] /\ tooth'[2] \in MayFollow(tooth'[2 - 1])
    BY <2>1
  <2> QED
    BY <2>2
<1>8. \A k \in Teeth : tooth'[k] \in regime.offsets \cup {Missing}
  BY <1>4 DEF TeethType
<1>9. \A k \in Teeth : tooth'[k] = Missing \/ (tooth'[k] \in Nat /\ 16 * tooth'[k] <= 3 * S)
  BY <1>1, <1>8
<1>10. Missing \notin regime.offsets
  BY <1>1, Constants DEF Missing
<1>11. Alternate(tooth')
  <2>1. /\ tooth[0] = Missing => tooth[-1] # Missing
        /\ tooth[1] = Missing => tooth[0] # Missing
        /\ tooth[2] = Missing => tooth[1] # Missing
    <3>1. /\ tooth[0] = Missing => tooth[0 - 1] # Missing
          /\ tooth[1] = Missing => tooth[1 - 1] # Missing
          /\ tooth[2] = Missing => tooth[2 - 1] # Missing
      BY DEF Alternate
    <3> QED
      BY <3>1
  <2>2. tooth'[2] = Missing => tooth'[1] # Missing
    BY <1>7, <1>10 DEF MayFollow
  <2>3. /\ tooth'[-1] = Missing => tooth'[-1 - 1] # Missing
        /\ tooth'[0] = Missing => tooth'[0 - 1] # Missing
        /\ tooth'[1] = Missing => tooth'[1 - 1] # Missing
        /\ tooth'[2] = Missing => tooth'[2 - 1] # Missing
    BY <1>7, <2>1, <2>2
  <2> QED
    BY <2>3 DEF Alternate
<1> QED
  BY <1>2, <1>5, <1>7, <1>9, <1>11

\* Such a present: where the target's frame is there both modes show it, however late it is
\* stamped and whatever was shown before.
LEMMA HoledStep ==
    ASSUME TeethType, Decided, Covered, regime.holes, Present
    PROVE  /\ sel' \in Selections /\ comp' \in CompositeStates
           /\ op' \in {"before", "after", "synth"} /\ Covered'
<1>1. /\ regime \in Regimes /\ regime.present = S /\ Settings.stickiness = Band
      /\ Settings.stickiness \in Nat /\ Settings.srcPeriod \in Nat
      /\ Band \in Nat /\ 4 * Band <= S
  BY RegimeFacts, Gates, Constants DEF TeethType
<1>2. phase = 0 /\ Alternate(tooth) /\ regime' = regime
  BY DEF Covered, Present
<1> DEFINE t == tooth'
<1>3. /\ phase' = 0 /\ Alternate(t) /\ Teeth = -2 .. 2
      /\ \A k \in Teeth : t[k] = Missing \/ (t[k] \in Nat /\ 16 * t[k] <= 3 * S)
      /\ t[-2] = tooth[-1] /\ t[-1] = tooth[0] /\ t[0] = tooth[1]
  BY <1>2, HoledMoves
<1>4. \E before, after \in Teeth :
         /\ IsBefore(before, t, 0) /\ IsAfter(after, t, 0)
         /\ sel' = SelectFrame(Bracket(before, after, t, 0), SelNow, Settings).st
         /\ comp' = DecideComposite(Bracket(before, after, t, 0), CompNow, Settings).st
         /\ op' = DecideComposite(Bracket(before, after, t, 0), CompNow, Settings).op
  BY <1>3 DEF Present
<1> HIDE DEF t
<1>5. PICK x, y \in Int :
         /\ HoledAround(t, x, y)
         /\ sel' = SelectFrame(Around(x, y), SelNow, Settings).st
         /\ comp' = DecideComposite(Around(x, y), CompNow, Settings).st
         /\ op' = DecideComposite(Around(x, y), CompNow, Settings).op
  <2>1. PICK before \in Teeth, after \in Teeth :
           /\ IsBefore(before, t, 0) /\ IsAfter(after, t, 0)
           /\ sel' = SelectFrame(Bracket(before, after, t, 0), SelNow, Settings).st
           /\ comp' = DecideComposite(Bracket(before, after, t, 0), CompNow, Settings).st
           /\ op' = DecideComposite(Bracket(before, after, t, 0), CompNow, Settings).op
    BY <1>4
  <2>2. PICK x, y \in Int : Bracket(before, after, t, 0) = Around(x, y) /\ HoledAround(t, x, y)
    BY <1>3, <2>1, HoledBracket
  <2> QED
    BY <2>1, <2>2
<1>6. /\ \A k \in {-1, 0, 1} : t[k] = 2 * S \/ (t[k] \in Nat /\ 16 * t[k] <= 3 * S)
      /\ t[0] = 2 * S => t[-1] # 2 * S /\ t[1] # 2 * S
  <2>1. \A k \in {-1, 0, 1} : t[k] = Missing \/ (t[k] \in Nat /\ 16 * t[k] <= 3 * S)
    BY <1>3
  <2>2. (t[0] = Missing => t[0 - 1] # Missing) /\ (t[1] = Missing => t[1 - 1] # Missing)
    BY <1>3 DEF Alternate
  <2> QED
    BY <2>1, <2>2 DEF Missing
<1>7. /\ x <= 0 /\ y > 0 /\ x >= -2 * S
      /\ \/ t[0] = 0 /\ x = 0 /\ y >= S
         \/ t[0] # 0 /\ t[0] # 2 * S /\ y = t[0] /\ 16 * x <= -13 * S
         \/ t[0] = 2 * S /\ x = t[-1] - S /\ y = S + t[1]
  BY <1>5 DEF HoledAround, Missing
<1>8. /\ SelNow \in Selections /\ SelNow.shown \in Int /\ SelNow.pickAfter \in BOOLEAN
      /\ CompNow \in CompositeStates /\ CompNow.out \in Int /\ CompNow.target \in Int
      /\ CompNow.synth = comp.synth /\ comp.synth \in BOOLEAN
      /\ Gate = PassthroughGate(CompNow, Settings)
  BY <1>1, NowFacts DEF Selections, CompositeStates, Decided
<1>9. op # "none" =>
         /\ t[-1] # 2 * S => SelNow.shown = t[-1] - S /\ CompNow.out = t[-1] - S
         /\ t[-1] = 2 * S => SelNow.shown \in {t[-2] - S - S, t[0]} /\ CompNow.out = -S
         /\ CompNow.target = -S
  <2>1. HAVE op # "none"
  <2>2. /\ t[-1] # 2 * S => sel.shown = t[-1] /\ comp.out = t[-1]
        /\ t[-1] = 2 * S => sel.shown \in {t[-2] - S, S + t[0]} /\ comp.out = 0
        /\ comp.target = 0
    BY <1>3, <2>1 DEF Covered, Missing
  <2>3. \A ts \in Int : ts > -4 * S => Back(ts) = ts - S
    BY <1>1, NowFacts
  <2>4. /\ SelNow.shown = Back(sel.shown) /\ CompNow.out = Back(comp.out)
        /\ CompNow.target = Back(comp.target)
    BY <1>1, NowFacts
  <2>5. t[-2] = 2 * S \/ (t[-2] \in Nat /\ 16 * t[-2] <= 3 * S)
    BY <1>3 DEF Missing
  <2>6. /\ sel.shown \in Int /\ sel.shown > -4 * S /\ comp.out \in Int /\ comp.out > -4 * S
    BY <1>6, <2>2, <2>5, Constants
  <2> QED
    BY <1>6, <2>2, <2>3, <2>4, <2>5, <2>6, Constants
<1>10. op = "none" => /\ SelNow.shown < x /\ SelNow.shown < y /\ CompNow.out < x
                      /\ CompNow.target = Never
  <2>1. HAVE op = "none"
  <2>2. SelNow.shown = Never /\ CompNow.out = Never /\ CompNow.target = Never
    BY <1>1, <2>1, NowFacts DEF Decided, FirstComposite
  <2> QED
    BY <1>7, <2>2, Constants
<1>11. Gate \in Int /\ Gate > 0 /\ 16 * Gate <= 5 * S /\ 16 * Gate > 3 * S
  <2>1. /\ Pass \in Nat /\ Wide \in Nat /\ Wide > Pass /\ 4 * (Wide - Pass) <= Pass
        /\ \/ 4 * Pass <= S /\ 4 * Pass >= S - 3
           \/ regime.present >= 2 * S - 2
    BY <1>1, Gates
  <2>2. 4 * Pass <= S /\ 4 * Pass >= S - 3
    BY <1>1, <2>1, Constants
  <2> QED
    BY <1>8, <2>1, <2>2, Constants DEF Gate
<1>12. Selects(x, y, SelNow, Settings, sel')
  BY <1>1, <1>5, <1>7, <1>8, SelectBetween
<1>13. /\ sel' \in Selections
       /\ t[0] # 2 * S => sel'.shown = t[0]
       /\ t[0] = 2 * S => sel'.shown \in {t[-1] - S, S + t[1]}
  <2>1. /\ sel' \in Selections
        /\ SelNow.shown < x => \/ sel'.shown = x /\ Nearer(x, y, SelNow.pickAfter, Settings)
                               \/ sel'.shown = y /\ ~Nearer(x, y, SelNow.pickAfter, Settings)
        /\ x <= SelNow.shown /\ SelNow.shown < y =>
              \/ sel'.shown = y /\ -x >= Band
              \/ sel'.shown = SelNow.shown /\ -x < 2 * Band
        /\ y <= SelNow.shown => sel'.shown = SelNow.shown
    BY <1>1, <1>12 DEF Selects
  <2>2. Nearer(x, y, SelNow.pickAfter, Settings) =>
           -x <= y + Band
    BY <1>1, <1>7, <1>8 DEF Nearer
  <2>3. ~Nearer(x, y, SelNow.pickAfter, Settings) => -x > y - Band
    BY <1>1, <1>7, <1>8 DEF Nearer
  <2>4. op # "none" => \/ SelNow.shown = t[0]
                       \/ SelNow.shown \in Int /\ SelNow.shown <= -13
                          /\ (t[0] = 2 * S => SelNow.shown = t[-1] - S)
    <3>1. t[-2] # 2 * S \/ t[-1] # 2 * S
      <4>1. t[-1] = Missing => t[-1 - 1] # Missing
        BY <1>3 DEF Alternate
      <4> QED
        BY <4>1 DEF Missing
    <3>2. t[-2] = 2 * S \/ (t[-2] \in Nat /\ 16 * t[-2] <= 3 * S)
      BY <1>3 DEF Missing
    <3> QED
      BY <1>1, <1>6, <1>8, <1>9, <3>1, <3>2, Constants
  <2>5. CASE t[0] = 0
    BY <1>1, <1>7, <1>8, <1>10, <2>1, <2>3, <2>4, <2>5, Constants
  <2>6. CASE t[0] # 0 /\ t[0] # 2 * S
    BY <1>1, <1>6, <1>7, <1>8, <1>10, <2>1, <2>2, <2>4, <2>6, Constants
  <2>7. CASE t[0] = 2 * S
    <3>1. t[-1] \in Nat /\ 16 * t[-1] <= 3 * S
      BY <1>6, <2>7
    <3>2. x = t[-1] - S /\ y = S + t[1]
      BY <1>7, <2>7, Constants
    <3>3. op # "none" => SelNow.shown = x
      BY <1>6, <1>9, <2>7, <3>2
    <3> QED
      BY <1>1, <1>7, <1>8, <1>10, <2>1, <2>7, <3>1, <3>2, <3>3, Constants
  <2> QED
    BY <2>1, <2>5, <2>6, <2>7
<1> DEFINE r == DecideComposite(Around(x, y), CompNow, Settings)
<1>14. Decides(x, y, Gate, CompNow, Settings, r)
  BY <1>1, <1>7, <1>8, <1>11, DecideBetween
<1> HIDE DEF r
<1>15. CompNow.out <= 0 /\ (CompNow.out <= x \/ 16 * x <= -13 * S)
  BY <1>6, <1>7, <1>8, <1>9, <1>10, Constants
<1>16. ~OnComb(CompNow, Settings)
  <2>1. SUFFICES ASSUME OnComb(CompNow, Settings) PROVE FALSE
    OBVIOUS
  <2>2. -8 * CompNow.target < 7 * S
    BY <1>1, <1>8, <2>1, CombBound
  <2>3. op # "none"
    BY <1>10, <2>1 DEF OnComb
  <2> QED
    BY <1>9, <2>2, <2>3, Constants
<1>17. \/ t[0] # 2 * S /\ r.op \in {"before", "after"} /\ r.st.out = t[0] /\ r.st.synth = FALSE
          /\ r.st.target = 0 /\ r.st \in CompositeStates
       \/ t[0] = 2 * S /\ r.op = "synth" /\ r.st.out = 0 /\ r.st.synth = TRUE /\ r.st.target = 0
          /\ r.st \in CompositeStates
  <2>1. CASE t[0] = 0
    <3>1. -x < Gate /\ ~(y < Gate) /\ CompNow.out <= x
      BY <1>6, <1>7, <1>8, <1>11, <1>15, <2>1, Constants
    <3>2. r.op = "before" /\ r.st = [out |-> x, target |-> 0, synth |-> FALSE, passAfter |-> FALSE]
      BY <1>7, <1>8, <1>11, <1>14, <3>1 DEF Decides, PassesAfter, Apart
    <3> QED
      BY <1>7, <2>1, <3>2, Constants DEF CompositeStates
  <2>2. CASE t[0] # 0 /\ t[0] # 2 * S
    <3>1. ~(-x < Gate) /\ y < Gate /\ CompNow.out <= y
      BY <1>6, <1>7, <1>8, <1>11, <1>15, <2>2, Constants
    <3>2. r.op = "after" /\ r.st = [out |-> y, target |-> 0, synth |-> FALSE, passAfter |-> TRUE]
      BY <1>7, <1>8, <1>11, <1>14, <3>1 DEF Decides, PassesBefore, Apart
    <3> QED
      BY <1>7, <2>2, <3>2 DEF CompositeStates
  <2>3. CASE t[0] = 2 * S
    <3>1. ~(-x < Gate) /\ ~(y < Gate) /\ ~(0 < CompNow.out)
      BY <1>6, <1>7, <1>8, <1>11, <1>15, <2>3, Constants
    <3>2. /\ r.op = "synth"
          /\ r.st = [out |-> 0, target |-> 0, synth |-> TRUE, passAfter |-> CompNow.passAfter]
      BY <1>14, <1>16, <3>1 DEF Decides, PassesBefore, PassesAfter
    <3>3. CompNow.passAfter \in BOOLEAN
      BY <1>8 DEF CompositeStates
    <3> QED
      BY <2>3, <3>2, <3>3 DEF CompositeStates
  <2> QED
    BY <2>1, <2>2, <2>3
<1>18. comp' = r.st /\ op' = r.op
  BY <1>5 DEF r
<1>19. Covered'
  <2>1. /\ phase' = 0 /\ Alternate(tooth')
    BY <1>3 DEF t
  <2>2. /\ tooth'[0] # Missing =>
              sel'.shown = tooth'[0] /\ comp'.out = tooth'[0] /\ ~comp'.synth /\ op' # "synth"
        /\ tooth'[0] = Missing =>
              /\ sel'.shown \in {tooth'[-1] - S, S + tooth'[1]}
              /\ comp'.out = 0 /\ comp'.synth /\ op' = "synth"
        /\ comp'.target = 0
    BY <1>13, <1>17, <1>18 DEF t, Missing
  <2> QED
    BY <2>1, <2>2 DEF Covered
<1> QED
  BY <1>13, <1>17, <1>18, <1>19

-----------------------------------------------------------------------------
(* The inductive invariant of every regime.                                *)

SteadyInv ==
    /\ TeethType /\ Decided /\ Covered
    /\ ~regime.holes => Whole /\ NearBracket /\ Composed

LEMMA SteadyInit == Init => SteadyInv
<1> SUFFICES ASSUME Init PROVE SteadyInv
  OBVIOUS
<1>1. /\ regime \in Regimes /\ phase \in regime.phases
      /\ tooth \in [Teeth -> regime.offsets \cup {Missing}]
      /\ \A k \in Teeth : tooth[k] \in MayFollow(IF k = -regime.reach THEN 0 ELSE tooth[k - 1])
      /\ sel = [FirstSelection EXCEPT !.shown = Never] /\ comp = FirstComposite /\ op = "none"
  BY DEF Init
<1>2. /\ regime.phases \subseteq 0 .. (S - 1)
      /\ regime.holes => regime.phases = {0} /\ regime.reach = 2
      /\ \A d \in regime.offsets : d \in Nat /\ 16 * d <= 3 * S
  BY <1>1, RegimeFacts
<1>3. TeethType
  BY <1>1, <1>2 DEF TeethType
<1>4. Decided
  <2>1. sel = [shown |-> Never, pickAfter |-> FALSE, gateOpen |-> TRUE]
    BY <1>1 DEF FirstSelection
  <2>2. sel \in Selections /\ sel.shown = Never /\ ~sel.pickAfter
    BY <2>1, Constants DEF Selections
  <2>3. comp \in CompositeStates
    BY <1>1, Constants DEF FirstComposite, CompositeStates
  <2> QED
    BY <1>1, <2>2, <2>3 DEF Decided
<1>5. Covered
  <2>1. SUFFICES ASSUME regime.holes PROVE phase = 0 /\ Alternate(tooth)
    BY <1>1 DEF Covered
  <2>2. phase = 0 /\ regime.reach = 2
    BY <1>1, <1>2, <2>1
  <2>3. Missing \notin regime.offsets
    BY <1>2, Constants DEF Missing
  <2>4. {-1, 0, 1, 2} \subseteq Teeth /\ \A k \in {-1, 0, 1, 2} : k # -2
    BY <2>2 DEF Teeth
  <2>5. \A k \in {-1, 0, 1, 2} : tooth[k] \in MayFollow(tooth[k - 1])
    BY <1>1, <2>2, <2>4
  <2> QED
    BY <2>2, <2>3, <2>5 DEF Alternate, MayFollow
<1>6. ~regime.holes => Whole /\ NearBracket /\ Composed
  <2>1. HAVE ~regime.holes
  <2>2. \A k \in Teeth : \E prev : tooth[k] \in MayFollow(prev)
    BY <1>1
  <2>3. Whole
    BY <1>3, <2>1, <2>2, NoHoles
  <2> QED
    BY <1>1, <2>3 DEF NearBracket, Composed
<1> QED
  BY <1>3, <1>4, <1>5, <1>6 DEF SteadyInv

\* A present keeps the invariant, in the regimes with and without holes.
LEMMA SteadyStep == ASSUME SteadyInv, Present PROVE SteadyInv' /\ op' \notin {"none", "hold"}
<1>1. TeethType /\ Decided /\ TeethType' /\ regime' = regime
  BY TargetMoves DEF SteadyInv
<1>2. CASE regime.holes
  <2>1. /\ sel' \in Selections /\ comp' \in CompositeStates
        /\ op' \in {"before", "after", "synth"} /\ Covered'
    BY <1>1, <1>2, HoledStep DEF SteadyInv
  <2>2. Decided'
    BY <2>1 DEF Decided
  <2> QED
    BY <1>1, <1>2, <2>1, <2>2 DEF SteadyInv
<1>3. CASE ~regime.holes
  <2>1. Whole /\ NearBracket /\ Composed
    BY <1>3 DEF SteadyInv
  <2>2. Whole' /\ sel' \in Selections /\ NearBracket'
    BY <1>1, <2>1, TeethMove, NearStep
  <2>3. /\ comp' \in CompositeStates /\ Composed'
        /\ op' \in {"before", "after", "synth", "comb"}
    BY <1>1, <2>1, ComposedStep
  <2>4. Decided'
    BY <2>2, <2>3 DEF Decided
  <2>5. Covered'
    BY <1>1, <1>3 DEF Covered
  <2> QED
    BY <1>1, <1>3, <2>2, <2>3, <2>4, <2>5 DEF SteadyInv
<1> QED
  BY <1>2, <1>3

\* Every regime keeps the invariant, and no decision is held because it is older than what is shown.
THEOREM SteadyInvariant == Spec => []SteadyInv
<1>1. SteadyInv /\ [Present]_vars => SteadyInv'
  <2> SUFFICES ASSUME SteadyInv, [Present]_vars PROVE SteadyInv'
    OBVIOUS
  <2>1. CASE Present
    BY <2>1, SteadyStep
  <2>2. CASE UNCHANGED vars
    <3>1. /\ regime' = regime /\ phase' = phase /\ tooth' = tooth /\ sel' = sel /\ comp' = comp
          /\ op' = op
      BY <2>2 DEF vars
    <3>2. Pass' = Pass /\ Wide' = Wide /\ Bef' = Bef /\ Aft' = Aft /\ Teeth' = Teeth
      BY <3>1 DEF Pass, Wide, WideGate, Settings, Bef, Aft, Teeth
    <3> QED
      BY <3>1, <3>2 DEF SteadyInv, TeethType, Decided, Covered, Whole, NearBracket, Composed
  <2> QED
    BY <2>1, <2>2
<1> QED
  BY SteadyInit, <1>1, PTL DEF Spec

\* The invariant says that both policies keep up and that holes are covered.
LEMMA SteadyKeepsUp == SteadyInv => ParkedInv /\ HoleCovered
<1> SUFFICES ASSUME SteadyInv PROVE ParkedInv /\ HoleCovered
  OBVIOUS
<1>1. /\ TeethType /\ Decided /\ Covered /\ regime \in Regimes
      /\ ~regime.holes => Whole /\ NearBracket /\ Composed
  BY DEF SteadyInv, TeethType
<1>2. /\ sel.shown \in Int /\ comp.out \in Int /\ comp.target \in Int /\ comp.synth \in BOOLEAN
  BY <1>1 DEF Decided, Selections, CompositeStates
<1>3. HoleCovered
  BY <1>1 DEF HoleCovered, Covered
<1>4. ASSUME op # "none"
      PROVE  /\ sel.shown \in -2 * S .. 2 * S
             /\ comp.target \in -S .. 0 /\ comp.out \in comp.target - S .. comp.target + S
             /\ comp.synth => comp.out = comp.target
  <2>1. CASE ~regime.holes
    <3>1. /\ \A k \in {-1, 0, 1} : tooth[k] \in Nat /\ 16 * tooth[k] <= 3 * S
          /\ phase \in Nat /\ phase < S
      BY <1>1, <2>1, WholeStamps
    <3>2. Bef \in Int /\ Aft \in Int /\ Bef <= 0 /\ Aft > 0 /\ 16 * (Aft - Bef) <= 19 * S
      BY <3>1, Between DEF Bef, Aft
    <3>3. Bef <= sel.shown /\ sel.shown <= Aft
      BY <1>1, <1>4, <2>1 DEF NearBracket
    <3>4. /\ Pass \in Nat /\ Wide \in Nat /\ 4 * (Wide - Pass) <= Pass
          /\ 4 * Pass <= S \/ 2 * Pass <= S
      BY <1>1, Gates
    <3>5. /\ comp.target <= 0 /\ -8 * comp.target < 7 * S
          /\ comp.synth => comp.out = comp.target
          /\ ~comp.synth => comp.target - Wide < comp.out /\ comp.out < comp.target + Wide
      BY <1>1, <1>4, <2>1 DEF Composed
    <3>6. sel.shown \in -2 * S .. 2 * S
      BY <1>2, <3>2, <3>3, Constants
    <3>7. comp.target \in -S .. 0
      BY <1>2, <3>5, Constants
    <3>8. comp.out \in comp.target - S .. comp.target + S
      BY <1>2, <3>4, <3>5, Constants
    <3> QED
      BY <3>5, <3>6, <3>7, <3>8
  <2>2. CASE regime.holes
    <3>1. /\ Alternate(tooth) /\ comp.target = 0
          /\ tooth[0] # Missing => sel.shown = tooth[0] /\ comp.out = tooth[0] /\ ~comp.synth
          /\ tooth[0] = Missing =>
                sel.shown \in {tooth[-1] - S, S + tooth[1]} /\ comp.out = 0 /\ comp.synth
      BY <1>1, <1>4, <2>2 DEF Covered
    <3>2. /\ \A d \in regime.offsets : d \in Nat /\ 16 * d <= 3 * S
          /\ regime.reach = 2
      BY <1>1, <2>2, RegimeFacts
    <3>3. {-1, 0, 1} \subseteq Teeth
      BY <3>2 DEF Teeth
    <3>4. \A k \in {-1, 0, 1} :
             tooth[k] = Missing \/ (tooth[k] \in Nat /\ 16 * tooth[k] <= 3 * S)
      BY <1>1, <3>2, <3>3 DEF TeethType
    <3>5. tooth[0] = Missing => tooth[-1] # Missing /\ tooth[1] # Missing
      <4>1. /\ tooth[0] = Missing => tooth[0 - 1] # Missing
            /\ tooth[1] = Missing => tooth[1 - 1] # Missing
        BY <3>1 DEF Alternate
      <4> QED
        BY <4>1
    <3>6. CASE tooth[0] # Missing
      BY <3>1, <3>4, <3>6, Constants
    <3>7. CASE tooth[0] = Missing
      BY <3>1, <3>4, <3>5, <3>7, Constants
    <3> QED
      BY <3>6, <3>7
  <2> QED
    BY <2>1, <2>2
<1>5. ParkedInv
  BY <1>1, <1>4 DEF ParkedInv, TeethType, Decided
<1> QED
  BY <1>3, <1>5

\* Both modes keep up with the target for ever, on every clock and whatever the jitter.
THEOREM KeepsUp == Spec => []ParkedInv
<1> QED
  BY SteadyInvariant, SteadyKeepsUp, PTL

\* A missing frame is blended over, however late the frame before it was stamped.
THEOREM HolesCovered == Spec => []HoleCovered
<1> QED
  BY SteadyInvariant, SteadyKeepsUp, PTL

-----------------------------------------------------------------------------
(* A tight source.                                                         *)

\* The jitter of a tight source is within both bands.
LEMMA TightTeeth ==
    ASSUME regime \in Regimes, Tight, NEW t, \A k \in {-1, 0, 1} : t[k] \in regime.offsets
    PROVE  \A k \in {-1, 0, 1} :
              t[k] \in Nat /\ t[k] <= Band /\ 16 * t[k] <= S /\ t[k] <= Wide - Pass
<1>1. \A d \in regime.offsets : d \in Nat /\ d <= Band /\ 16 * d <= S
  BY RegimeFacts DEF Tight
<1>2. \A d \in regime.offsets : d <= Wide - Pass
  BY <1>1, Gates
<1> QED
  BY <1>1, <1>2

\* A present on a tight source.
LEMMA TightPresent ==
    ASSUME SteadyInv, Tight, Present
    PROVE  /\ regime' = regime /\ Tight' /\ phase \in Nat /\ phase' \in Nat /\ phase' < S
           /\ \A k \in {-1, 0, 1} : /\ tooth[k] \in Nat /\ tooth[k] <= Band /\ 16 * tooth[k] <= S
                                    /\ tooth[k] <= Wide - Pass
           /\ \A k \in {-1, 0, 1} : /\ tooth'[k] \in Nat /\ tooth'[k] <= Band
                                    /\ 16 * tooth'[k] <= S /\ tooth'[k] <= Wide - Pass
           /\ Bef' = BefAt(tooth', phase') /\ Aft' = AftAt(tooth', phase')
           /\ \E n \in {0, 1, 2} :
                 /\ phase' = phase + regime.present - n * S
                 /\ \A k \in {-1, 0, 1} : k + n \in {-1, 0, 1} => tooth'[k] = tooth[k + n]
<1>1. /\ TeethType /\ TeethType' /\ Decided /\ ~regime.holes /\ Whole /\ Whole' /\ Composed
      /\ regime' = regime /\ regime \in Regimes
  BY TargetMoves, TeethMove DEF SteadyInv, Tight, TeethType
<1>2. Tight'
  BY <1>1 DEF Tight
<1>3. /\ \A k \in {-1, 0, 1} : tooth[k] \in regime.offsets
      /\ \A k \in {-1, 0, 1} : tooth'[k] \in regime.offsets
  BY <1>1 DEF Whole
<1>4. phase \in Nat /\ phase' \in Nat /\ phase' < S
  BY <1>1, Constants DEF TeethType
<1>5. \A k \in {-1, 0, 1} :
         tooth[k] \in Nat /\ tooth[k] <= Band /\ 16 * tooth[k] <= S /\ tooth[k] <= Wide - Pass
  BY <1>1, <1>3, TightTeeth
<1>6. \A k \in {-1, 0, 1} :
         tooth'[k] \in Nat /\ tooth'[k] <= Band /\ 16 * tooth'[k] <= S /\ tooth'[k] <= Wide - Pass
  BY <1>1, <1>3, TightTeeth
<1>7. Bef' = BefAt(tooth', phase') /\ Aft' = AftAt(tooth', phase')
  BY DEF Bef, Aft
<1> QED
  BY <1>1, <1>2, <1>4, <1>5, <1>6, <1>7, TeethMove

-----------------------------------------------------------------------------
(* A slow clock: the nearest mode.                                         *)

\* One phase is all there is, and what was shown there is a tooth next to the target.
LEMMA SlowTurns ==
    ASSUME SteadyInv, Slow, Present
    PROVE  /\ Tight /\ Slow' /\ phase' = phase /\ phase \in Nat /\ phase < S
           /\ regime.present \in {S, 2 * S}
           /\ regime.present = S => tooth'[-1] = tooth[0] /\ tooth'[0] = tooth[1]
<1>1. Tight /\ regime.present \in {S, 2 * S}
  BY DEF Slow
<1>2. /\ regime' = regime /\ Tight' /\ phase \in Nat /\ phase' \in Nat /\ phase' < S
      /\ \E n \in {0, 1, 2} :
            /\ phase' = phase + regime.present - n * S
            /\ \A k \in {-1, 0, 1} : k + n \in {-1, 0, 1} => tooth'[k] = tooth[k + n]
  BY <1>1, TightPresent
<1>3. phase < S
  BY Constants DEF SteadyInv, TeethType
<1>4. PICK n \in {0, 1, 2} :
         /\ phase' = phase + regime.present - n * S
         /\ \A k \in {-1, 0, 1} : k + n \in {-1, 0, 1} => tooth'[k] = tooth[k + n]
  BY <1>2
<1>5. CASE regime.present = S
  <2>1. n = 1 /\ phase' = phase
    BY <1>2, <1>3, <1>4, <1>5, Constants
  <2>2. tooth'[-1] = tooth[0] /\ tooth'[0] = tooth[1]
    BY <1>4, <2>1
  <2> QED
    BY <1>1, <1>2, <1>3, <2>1, <2>2 DEF Slow
<1>6. CASE regime.present = 2 * S
  <2>1. n = 2 /\ phase' = phase
    BY <1>2, <1>3, <1>4, <1>6, Constants
  <2> QED
    BY <1>1, <1>2, <1>3, <1>6, <2>1, Constants DEF Slow
<1> QED
  BY <1>1, <1>5, <1>6

\* What is written down at the one phase there is.
LEMMA ShowsAgain ==
    ASSUME phase' = phase, NEW h, NEW what, h.flips \in {0, 1},
           DOMAIN h.at = {} \/ DOMAIN h.at = {phase}
    PROVE  /\ DOMAIN Shows(h, what).at = {phase} /\ Shows(h, what).at[phase] = what
           /\ DOMAIN h.at = {} \/ h.at[phase] = what => Shows(h, what).flips = h.flips
           /\ DOMAIN h.at = {phase} /\ h.at[phase] # what => Shows(h, what).flips = h.flips + 1
<1>1. DOMAIN h.at \cup {phase'} = {phase}
  OBVIOUS
<1>2. DOMAIN Shows(h, what).at = {phase} /\ Shows(h, what).at[phase] = what
  BY <1>1 DEF Shows
<1>3. Shows(h, what).flips = IF phase' \in DOMAIN h.at /\ h.at[phase'] # what /\ h.flips < 4
                             THEN h.flips + 1 ELSE h.flips
  BY DEF Shows, MaxFlips
<1>4. h.flips < 4
  OBVIOUS
<1> QED
  BY <1>2, <1>3, <1>4

\* The tooth a stamp is of is the one it was stamped for.
LEMMA ToothOfStamp ==
    ASSUME NEW a \in {0, 1}, NEW d \in Nat, d < S, NEW p \in Nat, phase' = p
    PROVE  ToothOf(a * S + d - p) = a
<1>1. a * S + d - p + p = a * S + d /\ a * S + d \in Nat
  BY Constants
<1>2. PICK m \in Nat : m = a * S + d
  BY <1>1
<1>3. a \in {0, 1, 2} /\ a * S <= m /\ m < (a + 1) * S
  BY <1>2, Constants
<1>4. m \div S = a
  BY <1>3, Passed
<1> QED
  BY <1>1, <1>2, <1>4 DEF ToothOf

Seen == settled.nearest.at[phase]

\* The nearest mode shows the target's tooth, or the one after, and never goes back to the target's:
\* then the target is past the middle by more than the band.
NearSettled ==
    Slow =>
       /\ settled.nearest.flips \in {0, 1}
       /\ op = "none" => DOMAIN settled.nearest.at = {} /\ settled.nearest.flips = 0
       /\ op # "none" =>
             /\ DOMAIN settled.nearest.at = {phase} /\ Seen \in {0, 1}
             /\ settled.nearest.flips = 1 => Seen = 1
             /\ Seen = 0 => /\ sel.shown = tooth[0] - phase
                            /\ sel.pickAfter => phase < tooth[0]
             /\ Seen = 1 => /\ sel.shown = S + tooth[1] - phase /\ sel.pickAfter
                            /\ 2 * phase > S + Band

\* A slow present keeps what the nearest mode settled on, or moves it on once.
LEMMA NearSettledStep ==
    ASSUME SteadyInv, NearSettled, Present
    PROVE  NearSettled'
<1> SUFFICES ASSUME Slow PROVE NearSettled'
  BY TargetMoves DEF NearSettled, Slow, Tight, SteadyInv
<1> DEFINE a == tooth'[-1]
           b == tooth'[0]
           c == tooth'[1]
           x == Bef'
           y == Aft'
           P == regime.present
           s == SelNow
           r == sel'
<1>1. /\ Tight /\ Slow' /\ phase' = phase /\ phase \in Nat /\ phase < S
      /\ P \in {S, 2 * S} /\ (P = S => a = tooth[0] /\ b = tooth[1])
  BY SlowTurns
<1>2. /\ a \in Nat /\ a <= Band /\ 16 * a <= S
      /\ b \in Nat /\ b <= Band /\ 16 * b <= S
      /\ c \in Nat /\ c <= Band /\ 16 * c <= S
      /\ tooth[0] \in Nat /\ tooth[0] <= Band /\ 16 * tooth[0] <= S
      /\ tooth[1] \in Nat /\ tooth[1] <= Band /\ 16 * tooth[1] <= S
      /\ x = BefAt(tooth', phase') /\ y = AftAt(tooth', phase')
  BY <1>1, TightPresent
<1>3. /\ b <= phase => x = b - phase /\ y = S + c - phase
      /\ ~(b <= phase) => x = a - S - phase /\ y = b - phase
  BY <1>1, <1>2 DEF BefAt, AftAt
<1>4. /\ TeethType /\ Decided /\ Whole /\ NearBracket /\ regime \in Regimes
  BY <1>1 DEF SteadyInv, Tight, TeethType
<1>5. /\ x \in Int /\ y \in Int /\ x <= 0 /\ y > 0
      /\ r = SelectFrame(Around(x, y), s, Settings).st
  BY <1>4, WholePresent
<1>6. s \in Selections /\ s.pickAfter = sel.pickAfter /\ Settings.stickiness = Band /\ Band \in Nat
  BY <1>4, NowFacts, Gates, Constants
<1>7. /\ op # "none" => s.shown = sel.shown - P
      /\ op = "none" => s.shown < x
  BY <1>4, NearStep
<1>8. op' # "none"
  BY SteadyStep
<1>9. s.shown \in Int /\ s.pickAfter \in BOOLEAN
  BY <1>6 DEF Selections
<1>10. settled'.nearest = Shows(settled.nearest, ToothOf(r.shown))
  BY DEF Present
<1>11. op = "none" => DOMAIN settled.nearest.at = {} /\ settled.nearest.flips = 0
  BY DEF NearSettled
<1>12. /\ settled.nearest.flips \in {0, 1}
       /\ op # "none" =>
             /\ DOMAIN settled.nearest.at = {phase} /\ Seen \in {0, 1}
             /\ settled.nearest.flips = 1 => Seen = 1
             /\ Seen = 0 => /\ sel.shown = tooth[0] - phase
                            /\ sel.pickAfter => phase < tooth[0]
             /\ Seen = 1 => /\ sel.shown = S + tooth[1] - phase /\ sel.pickAfter
                            /\ 2 * phase > S + Band
  BY DEF NearSettled
<1> HIDE DEF a, b, c, x, y, P, s, r
<1>13. Selects(x, y, s, Settings, r)
  BY <1>5, <1>6, SelectBetween
<1>14. /\ s.shown < x => \/ r.shown = x /\ ~r.pickAfter /\ Nearer(x, y, s.pickAfter, Settings)
                         \/ r.shown = y /\ r.pickAfter /\ ~Nearer(x, y, s.pickAfter, Settings)
       /\ x <= s.shown /\ s.shown < y =>
             \/ r.shown = y /\ r.pickAfter
             \/ -x < 2 * Band
  BY <1>6, <1>13 DEF Selects
<1>15. /\ s.pickAfter => (Nearer(x, y, s.pickAfter, Settings) <=> -x <= y - Band)
       /\ ~s.pickAfter => (Nearer(x, y, s.pickAfter, Settings) <=> -x <= y + Band)
  BY <1>5, <1>6, <1>9 DEF Nearer
\* What is picked, and that the tooth after is picked for good.
<1>16. /\ \/ r.shown = b - phase /\ (r.pickAfter => phase < b)
          \/ r.shown = S + c - phase /\ r.pickAfter /\ 2 * phase > S + Band
       /\ op # "none" /\ Seen = 1 => r.shown = S + c - phase
  <2>1. CASE ~(b <= phase)
    <3>1. op # "none" => Seen = 0 /\ s.shown <= x
      <4>1. HAVE op # "none"
      <4>2. Seen = 0
        BY <1>1, <1>2, <1>12, <2>1, <4>1, Constants
      <4>3. s.shown = tooth[0] - phase - P
        BY <1>7, <1>12, <4>1, <4>2
      <4> QED
        BY <1>1, <1>2, <1>3, <2>1, <4>2, <4>3, Constants
    <3>2. s.shown <= x
      BY <1>5, <1>7, <1>9, <3>1
    <3>3. -x > y + Band /\ -x >= 2 * Band
      BY <1>1, <1>2, <1>3, <2>1, Constants
    <3>4. ~Nearer(x, y, s.pickAfter, Settings)
      BY <1>5, <1>6, <1>9, <1>15, <3>3
    <3>5. r.shown = y /\ r.pickAfter
      BY <1>5, <1>6, <1>9, <1>14, <3>2, <3>3, <3>4
    <3> QED
      BY <1>1, <1>2, <1>3, <2>1, <3>1, <3>5
  <2>2. CASE b <= phase /\ (op = "none" \/ Seen = 0)
    <3>1. s.shown < x /\ (s.pickAfter => op # "none" /\ phase < tooth[0])
      <4>1. CASE op = "none"
        <5>1. ~sel.pickAfter
          BY <1>4, <4>1 DEF Decided
        <5> QED
          BY <1>6, <1>7, <4>1, <5>1
      <4>2. CASE op # "none"
        <5>1. s.shown = tooth[0] - phase - P
          BY <1>7, <1>12, <2>2, <4>2
        <5> QED
          BY <1>1, <1>2, <1>3, <1>6, <1>12, <2>2, <4>2, <5>1, Constants
      <4> QED
        BY <4>1, <4>2
    <3>2. CASE Nearer(x, y, s.pickAfter, Settings)
      BY <1>3, <1>14, <2>2, <3>1, <3>2
    <3>3. CASE ~Nearer(x, y, s.pickAfter, Settings)
      <4>1. ~s.pickAfter
        BY <1>1, <1>2, <1>3, <1>15, <2>2, <3>1, <3>3, Constants
      <4>2. -x > y + Band
        BY <1>5, <1>6, <1>15, <3>3, <4>1
      <4>3. 2 * phase > S + Band
        BY <1>1, <1>2, <1>3, <2>2, <4>2, Constants
      <4> QED
        BY <1>3, <1>14, <2>2, <3>1, <3>3, <4>3
    <3> QED
      BY <3>2, <3>3
  <2>3. CASE b <= phase /\ op # "none" /\ Seen = 1
    <3>0. sel.shown = S + tooth[1] - phase /\ sel.pickAfter /\ 2 * phase > S + Band
      BY <1>12, <2>3
    <3>1. s.shown = S + tooth[1] - phase - P /\ 2 * phase > S + Band
      <4>1. s.shown = sel.shown - P
        BY <1>7, <2>3
      <4>2. sel.shown = S + tooth[1] - phase
        BY <3>0
      <4>3. s.shown = S + tooth[1] - phase - P
        BY <1>1, <1>2, <4>1, <4>2, Constants
      <4> QED
        BY <3>0, <4>3
    <3>6. s.pickAfter
      BY <1>6, <3>0
    <3>2. -x > y - Band /\ -x >= 2 * Band
      BY <1>1, <1>2, <1>3, <2>3, <3>1, Constants
    <3>3. s.shown <= x
      BY <1>1, <1>2, <1>3, <2>3, <3>1, Constants
    <3>4. ~Nearer(x, y, s.pickAfter, Settings)
      <4>1. ~(-x <= y - Band)
        BY <1>5, <1>6, <3>2
      <4> QED
        BY <1>15, <3>6, <4>1
    <3>5. r.shown = y /\ r.pickAfter
      BY <1>5, <1>6, <1>9, <1>14, <3>2, <3>3, <3>4
    <3> QED
      BY <1>3, <2>3, <3>1, <3>5
  <2> QED
    BY <1>12, <2>1, <2>2, <2>3
<1>17. \/ ToothOf(r.shown) = 0 /\ r.shown = b - phase /\ (r.pickAfter => phase < b)
       \/ /\ ToothOf(r.shown) = 1 /\ r.shown = S + c - phase /\ r.pickAfter
          /\ 2 * phase > S + Band
  <2>1. b < S /\ c < S
    BY <1>2, Constants
  <2>2. ToothOf(0 * S + b - phase) = 0 /\ ToothOf(1 * S + c - phase) = 1
    BY <1>1, <1>2, <2>1, ToothOfStamp
  <2>3. 0 * S + b - phase = b - phase /\ 1 * S + c - phase = S + c - phase
    BY <1>1, <1>2, Constants
  <2> QED
    BY <1>16, <2>2, <2>3
<1>18. op # "none" /\ Seen = 1 => ToothOf(r.shown) = 1
  <2>1. b - phase # S + c - phase
    BY <1>1, <1>2, Constants
  <2> QED
    BY <1>16, <1>17, <2>1
<1> DEFINE h == settled.nearest
           what == ToothOf(r.shown)
<1>19. /\ DOMAIN h.at = {} \/ DOMAIN h.at = {phase}
       /\ h.flips \in {0, 1}
  BY <1>11, <1>12
<1> HIDE DEF h, what
<1>20. /\ DOMAIN Shows(h, what).at = {phase} /\ Shows(h, what).at[phase] = what
       /\ DOMAIN h.at = {} \/ h.at[phase] = what => Shows(h, what).flips = h.flips
       /\ DOMAIN h.at = {phase} /\ h.at[phase] # what => Shows(h, what).flips = h.flips + 1
  BY <1>1, <1>19, ShowsAgain
<1>21. Shows(h, what).flips \in {0, 1} /\ (Shows(h, what).flips = 1 => what = 1)
  <2>1. CASE op = "none"
    BY <1>11, <1>20, <2>1 DEF h
  <2>2. CASE op # "none"
    <3>1. /\ DOMAIN h.at = {phase} /\ h.at[phase] \in {0, 1} /\ (h.flips = 1 => h.at[phase] = 1)
          /\ h.at[phase] = 1 => what = 1
          /\ what \in {0, 1}
      BY <1>12, <1>17, <1>18, <2>2 DEF h, what, Seen
    <3> QED
      BY <1>19, <1>20, <3>1
  <2> QED
    BY <2>1, <2>2
<1>22. settled'.nearest = Shows(h, what) /\ Seen' = what
  BY <1>1, <1>10, <1>20 DEF h, what, Seen
<1> QED
  BY <1>1, <1>8, <1>17, <1>20, <1>21, <1>22 DEF NearSettled, what, r, b, c

\* On a slow clock the nearest mode changes its mind once at most, whatever the jitter.
THEOREM NearestStays == Spec => []NearestSettles
<1>1. Init => NearSettled
  <2> SUFFICES ASSUME Init PROVE NearSettled
    OBVIOUS
  <2>1. /\ settled = [mode \in {"nearest", "blend"} |-> [at |-> [p \in {} |-> None], flips |-> 0]]
        /\ op = "none"
    BY DEF Init
  <2>2. settled.nearest = [at |-> [p \in {} |-> None], flips |-> 0]
    BY <2>1
  <2>3. DOMAIN settled.nearest.at = {} /\ settled.nearest.flips = 0
    BY <2>2
  <2> QED
    BY <2>1, <2>3 DEF NearSettled
<1>2. SteadyInv /\ NearSettled /\ [Present]_vars => NearSettled'
  <2> SUFFICES ASSUME SteadyInv, NearSettled, [Present]_vars PROVE NearSettled'
    OBVIOUS
  <2>1. CASE Present
    BY <2>1, NearSettledStep
  <2>2. CASE UNCHANGED vars
    BY <2>2 DEF vars, NearSettled, Slow, Tight, Seen
  <2> QED
    BY <2>1, <2>2
<1>3. NearSettled /\ Decided => NearestSettles
  <2> SUFFICES ASSUME NearSettled, Decided, Slow
               PROVE  settled.nearest.flips <= Cardinality(DOMAIN settled.nearest.at)
    BY DEF NearestSettles
  <2>1. CASE op = "none"
    BY <2>1, FS_EmptySet DEF NearSettled
  <2>2. CASE op # "none"
    <3>1. Cardinality(DOMAIN settled.nearest.at) = 1
      BY <2>2, FS_Singleton DEF NearSettled
    <3> QED
      BY <3>1 DEF NearSettled
  <2> QED
    BY <2>1, <2>2
<1>4. SteadyInv => Decided
  BY DEF SteadyInv
<1> QED
  BY <1>1, <1>2, <1>3, <1>4, SteadyInvariant, PTL DEF Spec

-----------------------------------------------------------------------------
(* A slow clock: the blend modes.                                          *)

\* The threshold on a slow clock.
LEMMA SlowGates ==
    ASSUME regime \in Regimes, Slow
    PROVE  /\ Pass \in Nat /\ Wide \in Nat /\ Wide > Pass /\ Wide - Pass <= Band
           /\ 4 * (Wide - Pass) <= Pass
           /\ regime.present = S => 4 * Pass <= S /\ 4 * Pass >= S - 3
           /\ regime.present = 2 * S => 2 * Pass <= S /\ 2 * Pass >= S - 1 /\ Wide - Pass >= 2
<1> USE Constants
<1>1. /\ Pass \in Nat /\ Wide \in Nat /\ Wide > Pass /\ Wide - Pass <= Band
      /\ 4 * (Wide - Pass) <= Pass
  BY Gates
<1>2. Pass = IF S \div 2 <= regime.present \div 4 THEN regime.present \div 4 ELSE S \div 4
  BY DEF Pass, Settings, PassthroughThreshold
<1>3. Wide - Pass = IF Band < Pass \div 4 THEN Band ELSE Pass \div 4
  <2>1. Wide = Pass + IF Band < Pass \div 4 THEN Band ELSE Pass \div 4
    BY DEF Wide, WideGate, Pass, Settings
  <2> HIDE DEF Pass, Wide
  <2>2. Pass \div 4 \in Nat
    BY <1>1
  <2> QED
    BY <1>1, <2>1, <2>2
<1>4. CASE regime.present = S
  <2>1. Pass = S \div 4
    BY <1>2, <1>4
  <2> QED
    BY <1>1, <1>4, <2>1
<1>5. CASE regime.present = 2 * S
  <2>1. S \div 2 <= (2 * S) \div 4
    OBVIOUS
  <2>2. Pass = (2 * S) \div 4
    BY <1>2, <1>5, <2>1
  <2>3. 2 * Pass <= S /\ 2 * Pass >= S - 1
    BY <2>2
  <2> HIDE DEF Pass, Wide
  <2>4. Pass \div 4 \in Nat /\ Pass \div 4 >= 2
    BY <1>1, <2>3
  <2>5. Wide - Pass >= 2
    BY <1>3, <2>4
  <2> QED
    BY <1>1, <1>5, <2>3, <2>5
<1> QED
  BY <1>4, <1>5 DEF Slow

\* With a source period or more between presents no blend would be a frame between teeth, so no
\* present is held.
LEMMA NoComb ==
    ASSUME SteadyInv, ~regime.holes, Present, regime.present >= S, op # "none" => comp.target = 0
    PROVE  ~OnComb(CompNow, Settings)
<1>1. /\ TeethType /\ Whole /\ Decided /\ Composed /\ regime \in Regimes
      /\ regime.present \in Nat
  BY RegimeFacts DEF SteadyInv, TeethType
<1>2. CompNow \in CompositeStates /\ CompNow.target \in Int
  BY <1>1, NowFacts DEF CompositeStates
<1>3. CASE op = "none"
  <2>1. CompNow.target = Never
    BY <1>1, <1>3, NowFacts DEF Decided, FirstComposite
  <2> QED
    BY <2>1 DEF OnComb
<1>4. CASE op # "none"
  <2>1. CompNow.target = 0 - regime.present
    BY <1>1, <1>4, NowComposed
  <2>2. SUFFICES ASSUME OnComb(CompNow, Settings) PROVE FALSE
    OBVIOUS
  <2>3. -8 * CompNow.target < 7 * S
    BY <1>1, <1>2, <2>2, CombBound
  <2> QED
    BY <1>1, <2>1, <2>3, Constants
<1> QED
  BY <1>3, <1>4

Drawn == settled.blend.at[phase]

\* At the source's rate a phase that blends once is far enough from both frames to blend for good,
\* jitter and all.  At half the rate nothing is blended, and once the frame after is passed the
\* target is past the middle by more than the jitter.
BlendSettled ==
    Slow =>
       /\ settled.blend.flips \in {0, 1}
       /\ op = "none" => DOMAIN settled.blend.at = {} /\ settled.blend.flips = 0
       /\ op # "none" =>
             /\ DOMAIN settled.blend.at = {phase} /\ comp.target = 0
             /\ Drawn \in {0, 1, Blended} /\ (Drawn = Blended <=> comp.synth)
             /\ regime.present = S =>
                   /\ comp.synth => Wide <= phase /\ phase <= S - Pass
                   /\ ~comp.synth => settled.blend.flips = 0
                   /\ Drawn = 0 => 2 * phase < S
                   /\ Drawn = 1 => 2 * phase > S
             /\ regime.present = 2 * S =>
                   /\ ~comp.synth /\ op # "synth"
                   /\ Drawn = 0 /\ comp.passAfter => phase < tooth[0]
                   /\ Drawn = 1 => comp.passAfter /\ 2 * phase > S + (Wide - Pass)
                   /\ settled.blend.flips = 1 => Drawn = 1

\* What a slow present comes to, b being the target's tooth and c the next.
LEMMA SlowOutcome ==
    ASSUME SteadyInv, Slow, BlendSettled, Present, NEW b, NEW c, b = tooth'[0], c = tooth'[1]
    PROVE  /\ comp'.target = 0 /\ comp'.synth \in BOOLEAN /\ op' \in {"before", "after", "synth"}
           /\ comp'.synth = (op' = "synth")
           /\ \/ /\ op' = "before" /\ b <= phase /\ comp'.out = b - phase /\ ~comp'.passAfter
                 /\ phase - b < Gate
                 /\ S + c - phase < Gate => Nearer(b - phase, S + c - phase, comp.passAfter, Settings)
              \/ /\ op' = "after" /\ b <= phase /\ comp'.out = S + c - phase /\ comp'.passAfter
                 /\ S + c - phase < Gate
                 /\ phase - b < Gate => ~Nearer(b - phase, S + c - phase, comp.passAfter, Settings)
              \/ op' = "synth" /\ b <= phase /\ phase - b >= Gate /\ S + c - phase >= Gate
              \/ op' = "after" /\ phase < b /\ comp'.out = b - phase /\ comp'.passAfter
<1> DEFINE x == Bef'
           y == Aft'
           a == tooth'[-1]
<1>1. /\ Tight /\ Slow' /\ phase' = phase /\ phase \in Nat /\ phase < S
      /\ regime.present \in {S, 2 * S} /\ ~regime.holes
  BY SlowTurns DEF Tight
<1>2. /\ a \in Nat /\ 16 * a <= S
      /\ b \in Nat /\ 16 * b <= S /\ b <= Wide - Pass
      /\ c \in Nat /\ 16 * c <= S
      /\ x = BefAt(tooth', phase') /\ y = AftAt(tooth', phase')
  BY <1>1, TightPresent
<1>3. /\ b <= phase => x = b - phase /\ y = S + c - phase
      /\ ~(b <= phase) => x = a - S - phase /\ y = b - phase
  BY <1>1, <1>2 DEF BefAt, AftAt
<1>4. TeethType /\ Decided /\ Whole /\ Composed /\ regime \in Regimes
  BY <1>1 DEF SteadyInv, TeethType
<1>5. /\ comp' \in CompositeStates /\ op' \in {"before", "after", "synth", "comb"}
      /\ op' # "comb" => comp'.target = 0 /\ comp'.synth = (op' = "synth")
  BY <1>4, ComposedStep
<1>6. ~OnComb(CompNow, Settings)
  <2>1. regime.present >= S
    BY <1>1, Constants
  <2>2. op # "none" => comp.target = 0
    BY <1>1 DEF BlendSettled
  <2> QED
    BY <1>1, <2>1, <2>2, NoComb
<1>7. /\ Pass \in Nat /\ Wide \in Nat /\ Wide > Pass /\ 4 * (Wide - Pass) <= Pass /\ 2 * Pass <= S
      /\ Gate \in {Pass, Wide}
  BY <1>1, <1>4, SlowGates, Constants DEF Gate
<1>8. Outcome
  BY <1>4, WholeOutcome
<1>9. \/ PassesBefore(x, y, Gate, comp, Settings) /\ op' = "before" /\ comp'.out = x /\ ~comp'.passAfter
      \/ PassesAfter(x, y, Gate, comp, Settings) /\ op' = "after" /\ comp'.out = y /\ comp'.passAfter
      \/ Apart(x, y, Gate) /\ op' = "synth"
  BY <1>6, <1>8 DEF Outcome
<1>10. comp'.synth \in BOOLEAN
  BY <1>5 DEF CompositeStates
<1> HIDE DEF x, y, a
<1>11. CASE b <= phase
  <2>1. x = b - phase /\ y = S + c - phase /\ -(b - phase) = phase - b
    BY <1>1, <1>2, <1>3, <1>11
  <2> HIDE DEF x, y
  <2>2. \/ /\ -(b - phase) < Gate /\ op' = "before" /\ comp'.out = x /\ ~comp'.passAfter
           /\ y < Gate => Nearer(x, y, comp.passAfter, Settings)
        \/ /\ y < Gate /\ op' = "after" /\ comp'.out = y /\ comp'.passAfter
           /\ -(b - phase) < Gate => ~Nearer(x, y, comp.passAfter, Settings)
        \/ -(b - phase) >= Gate /\ y >= Gate /\ op' = "synth"
    BY <1>9, <2>1 DEF PassesBefore, PassesAfter, Apart
  <2> QED
    BY <1>5, <1>10, <1>11, <2>1, <2>2
<1>12. CASE ~(b <= phase)
  <2>1. ~(-x < Gate) /\ ~(y >= Gate)
    BY <1>1, <1>2, <1>3, <1>7, <1>12, Constants
  <2>2. op' = "after" /\ comp'.out = y /\ comp'.passAfter
    BY <1>9, <2>1 DEF PassesBefore, Apart
  <2> QED
    BY <1>1, <1>2, <1>3, <1>5, <1>10, <1>12, <2>2
<1> QED
  BY <1>11, <1>12

\* At the source's rate.
LEMMA OnRateStep ==
    ASSUME SteadyInv, Slow, BlendSettled, Present, regime.present = S,
           NEW what, what = IF comp'.synth THEN Blended ELSE ToothOf(comp'.out)
    PROVE  /\ what \in {0, 1, Blended} /\ (what = Blended <=> comp'.synth)
           /\ comp'.synth => Wide <= phase /\ phase <= S - Pass
           /\ what = 0 => 2 * phase < S
           /\ what = 1 => 2 * phase > S
           /\ op # "none" /\ what # Drawn => comp'.synth /\ ~comp.synth
<1> DEFINE b == tooth'[0]
           c == tooth'[1]
<1>1. /\ Tight /\ phase' = phase /\ phase \in Nat /\ phase < S /\ regime \in Regimes
      /\ comp.synth \in BOOLEAN
  BY SlowTurns DEF SteadyInv, TeethType, Decided, CompositeStates
<1>2. /\ b \in Nat /\ 16 * b <= S /\ b <= Wide - Pass
      /\ c \in Nat /\ 16 * c <= S /\ c <= Wide - Pass
  BY <1>1, TightPresent
<1>3. /\ Pass \in Nat /\ Wide \in Nat /\ Wide > Pass /\ 4 * (Wide - Pass) <= Pass
      /\ 4 * Pass <= S /\ 4 * Pass >= S - 3
      /\ Gate = IF comp.synth THEN Pass ELSE Wide
  BY <1>1, SlowGates DEF Gate
<1>4. /\ comp'.synth \in BOOLEAN /\ comp'.synth = (op' = "synth")
      /\ \/ /\ op' = "before" /\ b <= phase /\ comp'.out = b - phase
            /\ phase - b < Gate
         \/ /\ op' = "after" /\ b <= phase /\ comp'.out = S + c - phase
            /\ S + c - phase < Gate
         \/ op' = "synth" /\ b <= phase /\ phase - b >= Gate /\ S + c - phase >= Gate
         \/ op' = "after" /\ phase < b /\ comp'.out = b - phase
  BY SlowOutcome
<1>5. op # "none" =>
         /\ Drawn \in {0, 1, Blended} /\ (Drawn = Blended <=> comp.synth)
         /\ comp.synth => Wide <= phase /\ phase <= S - Pass
         /\ Drawn = 0 => 2 * phase < S
         /\ Drawn = 1 => 2 * phase > S
  BY DEF BlendSettled
<1>6. ToothOf(b - phase) = 0 /\ ToothOf(S + c - phase) = 1
  <2>1. b < S /\ c < S
    BY <1>2, Constants
  <2>2. ToothOf(0 * S + b - phase) = 0 /\ ToothOf(1 * S + c - phase) = 1
    BY <1>1, <1>2, <2>1, ToothOfStamp
  <2>3. 0 * S + b - phase = b - phase /\ 1 * S + c - phase = S + c - phase
    BY <1>1, <1>2, Constants
  <2> QED
    BY <2>2, <2>3
<1> HIDE DEF b, c
<1>7. op # "none" /\ comp.synth => Wide <= phase /\ phase <= S - Pass /\ Drawn = Blended
  BY <1>5
<1>8. Blended \notin {0, 1}
  BY DEF Blended
<1> HIDE DEF Blended
<1>9. CASE op' = "before" /\ b <= phase /\ comp'.out = b - phase /\ phase - b < Gate
  <2>1. ~comp'.synth /\ what = 0
    BY <1>4, <1>6, <1>9
  <2>2. 2 * phase < S
    BY <1>1, <1>2, <1>3, <1>9, Constants
  <2>3. op # "none" => ~comp.synth
    BY <1>1, <1>2, <1>3, <1>7, <1>9, Constants
  <2>4. op # "none" => Drawn = 0
    BY <1>1, <1>5, <2>2, <2>3, Constants
  <2> QED
    BY <1>8, <2>1, <2>2, <2>4
<1>10. CASE op' = "after" /\ b <= phase /\ comp'.out = S + c - phase /\ S + c - phase < Gate
  <2>1. ~comp'.synth /\ what = 1
    BY <1>4, <1>6, <1>10
  <2>2. 2 * phase > S
    BY <1>1, <1>2, <1>3, <1>10, Constants
  <2>3. op # "none" => ~comp.synth
    BY <1>1, <1>2, <1>3, <1>7, <1>10, Constants
  <2>4. op # "none" => Drawn = 1
    BY <1>1, <1>5, <2>2, <2>3, Constants
  <2> QED
    BY <1>8, <2>1, <2>2, <2>4
<1>11. CASE op' = "synth" /\ b <= phase /\ phase - b >= Gate /\ S + c - phase >= Gate
  <2>1. comp'.synth /\ what = Blended
    BY <1>4, <1>11
  <2>2. CASE op = "none"
    <3>1. ~comp.synth
      BY <2>2 DEF SteadyInv, Decided, FirstComposite
    <3>2. Wide <= phase /\ phase <= S - Pass
      BY <1>1, <1>2, <1>3, <1>11, <3>1, Constants
    <3> QED
      BY <1>8, <2>1, <2>2, <3>2
  <2>3. CASE op # "none" /\ comp.synth
    BY <1>7, <1>8, <2>1, <2>3
  <2>4. CASE ~comp.synth
    <3>2. Wide <= phase /\ phase <= S - Pass
      BY <1>1, <1>2, <1>3, <1>11, <2>4, Constants
    <3> QED
      BY <1>8, <2>1, <2>4, <3>2
  <2> QED
    BY <1>1, <2>2, <2>3, <2>4
<1>12. CASE op' = "after" /\ phase < b /\ comp'.out = b - phase
  <2>1. ~comp'.synth /\ what = 0
    BY <1>4, <1>6, <1>12
  <2>2. 2 * phase < S
    BY <1>1, <1>2, <1>12, Constants
  <2>3. op # "none" => ~comp.synth
    BY <1>1, <1>2, <1>3, <1>7, <1>12, Constants
  <2>4. op # "none" => Drawn = 0
    BY <1>1, <1>5, <2>2, <2>3, Constants
  <2> QED
    BY <1>8, <2>1, <2>2, <2>4
<1> QED
  BY <1>4, <1>9, <1>10, <1>11, <1>12

\* At half of it.
LEMMA OnHalfStep ==
    ASSUME SteadyInv, Slow, BlendSettled, Present, regime.present = 2 * S
    PROVE  /\ ~comp'.synth /\ op' # "synth" /\ ToothOf(comp'.out) \in {0, 1}
           /\ ToothOf(comp'.out) = 0 /\ comp'.passAfter => phase < tooth'[0]
           /\ ToothOf(comp'.out) = 1 => comp'.passAfter /\ 2 * phase > S + (Wide - Pass)
           /\ op # "none" /\ Drawn = 1 => ToothOf(comp'.out) = 1
           /\ op # "none" => Drawn \in {0, 1}
<1> DEFINE b == tooth'[0]
           c == tooth'[1]
           last == comp.passAfter
           z == ToothOf(comp'.out)
<1>1. /\ Tight /\ phase' = phase /\ phase \in Nat /\ phase < S /\ regime \in Regimes
      /\ comp.synth \in BOOLEAN /\ last \in BOOLEAN
  BY SlowTurns DEF SteadyInv, TeethType, Decided, CompositeStates
<1>2. /\ b \in Nat /\ 16 * b <= S /\ b <= Wide - Pass /\ b <= Band
      /\ c \in Nat /\ 16 * c <= S /\ c <= Wide - Pass /\ c <= Band
      /\ tooth[0] \in Nat /\ 16 * tooth[0] <= S
  BY <1>1, TightPresent
<1>3. /\ Pass \in Nat /\ Wide \in Nat /\ 4 * (Wide - Pass) <= Pass /\ Wide - Pass <= Band
      /\ 2 * Pass <= S /\ 2 * Pass >= S - 1 /\ Wide - Pass >= 2
  BY <1>1, SlowGates
<1>4. ~comp.synth /\ Gate = Wide
  <2>1. ~comp.synth
    BY Constants DEF SteadyInv, Decided, FirstComposite, BlendSettled
  <2> QED
    BY <2>1 DEF Gate
<1>5. /\ comp'.synth \in BOOLEAN /\ comp'.synth = (op' = "synth")
      /\ \/ /\ op' = "before" /\ b <= phase /\ comp'.out = b - phase /\ ~comp'.passAfter
            /\ phase - b < Wide
            /\ S + c - phase < Wide => Nearer(b - phase, S + c - phase, last, Settings)
         \/ /\ op' = "after" /\ b <= phase /\ comp'.out = S + c - phase /\ comp'.passAfter
            /\ S + c - phase < Wide
            /\ phase - b < Wide => ~Nearer(b - phase, S + c - phase, last, Settings)
         \/ op' = "synth" /\ b <= phase /\ phase - b >= Wide /\ S + c - phase >= Wide
         \/ op' = "after" /\ phase < b /\ comp'.out = b - phase /\ comp'.passAfter
  BY <1>4, SlowOutcome
<1>6. ToothOf(b - phase) = 0 /\ ToothOf(S + c - phase) = 1
  <2>1. b < S /\ c < S
    BY <1>2, Constants
  <2>2. ToothOf(0 * S + b - phase) = 0 /\ ToothOf(1 * S + c - phase) = 1
    BY <1>1, <1>2, <2>1, ToothOfStamp
  <2>3. 0 * S + b - phase = b - phase /\ 1 * S + c - phase = S + c - phase
    BY <1>1, <1>2, Constants
  <2> QED
    BY <2>2, <2>3
<1>7. /\ op = "none" => ~last
      /\ op # "none" => /\ Drawn \in {0, 1}
                        /\ Drawn = 0 /\ last => phase < tooth[0]
                        /\ Drawn = 1 => last /\ 2 * phase > S + (Wide - Pass)
  <2>1. op = "none" => ~last
    BY DEF SteadyInv, Decided, FirstComposite
  <2>2. op # "none" => /\ Drawn \in {0, 1, Blended} /\ (Drawn = Blended <=> comp.synth)
                       /\ Drawn = 0 /\ last => phase < tooth[0]
                       /\ Drawn = 1 => last /\ 2 * phase > S + (Wide - Pass)
    BY DEF BlendSettled
  <2> QED
    BY <1>4, <2>1, <2>2
<1>8. /\ last => (Nearer(b - phase, S + c - phase, last, Settings)
                     <=> phase - b <= S + c - phase - Band)
      /\ ~last => (Nearer(b - phase, S + c - phase, last, Settings)
                     <=> phase - b <= S + c - phase + Band)
  <2>1. Settings.stickiness = Band
    BY <1>1, Gates
  <2>2. -(b - phase) = phase - b
    BY <1>1, <1>2
  <2>3. Nearer(b - phase, S + c - phase, last, Settings)
           <=> phase - b <= S + c - phase + (IF last THEN -Band ELSE Band)
    BY <2>1, <2>2 DEF Nearer
  <2>4. S + c - phase + (-Band) = S + c - phase - Band
    BY <1>1, <1>2, Constants
  <2> QED
    BY <2>3, <2>4
<1>13. b = tooth'[0]
  OBVIOUS
<1>14. /\ comp'.out = b - phase => z = 0
       /\ comp'.out = S + c - phase => z = 1
  BY <1>6
<1>15. SUFFICES /\ ~comp'.synth /\ op' # "synth" /\ z \in {0, 1}
                /\ z = 0 /\ comp'.passAfter => phase < b
                /\ z = 1 => comp'.passAfter /\ 2 * phase > S + (Wide - Pass)
                /\ op # "none" /\ Drawn = 1 => z = 1
  BY <1>7
<1> HIDE DEF b, c, last, z
<1>9. CASE /\ op' = "before" /\ b <= phase /\ comp'.out = b - phase /\ ~comp'.passAfter
           /\ phase - b < Wide
           /\ S + c - phase < Wide => Nearer(b - phase, S + c - phase, last, Settings)
  <2>1. op # "none" => Drawn = 0
    <3>1. SUFFICES ASSUME op # "none", Drawn = 1 PROVE FALSE
      BY <1>7
    <3>2. last /\ 2 * phase > S + (Wide - Pass)
      BY <1>7, <3>1
    <3>3. S + c - phase < Wide
      BY <1>1, <1>2, <1>3, <1>9, <3>2, Constants
    <3>4. phase - b <= S + c - phase - Band
      BY <1>8, <1>9, <3>2, <3>3
    <3> QED
      BY <1>1, <1>2, <1>3, <3>2, <3>4, Constants
  <2>2. z = 0 /\ ~comp'.passAfter /\ op' # "synth" /\ ~comp'.synth
    BY <1>5, <1>9, <1>14
  <2> QED
    BY <2>1, <2>2
<1>10. CASE /\ op' = "after" /\ b <= phase /\ comp'.out = S + c - phase /\ comp'.passAfter
            /\ S + c - phase < Wide
            /\ phase - b < Wide => ~Nearer(b - phase, S + c - phase, last, Settings)
  <2>1. 2 * phase > S + (Wide - Pass)
    <3>1. CASE phase - b >= Wide
      BY <1>1, <1>2, <1>3, <1>10, <3>1, Constants
    <3>2. CASE phase - b < Wide /\ ~last
      <4>1. ~(phase - b <= S + c - phase + Band)
        BY <1>8, <1>10, <3>2
      <4> QED
        BY <1>1, <1>2, <1>3, <4>1, Constants
    <3>3. CASE phase - b < Wide /\ last
      <4>1. phase < tooth[0] \/ 2 * phase > S + (Wide - Pass)
        BY <1>7, <3>3
      <4> QED
        BY <1>1, <1>2, <1>3, <1>10, <4>1, Constants
    <3> QED
      BY <1>1, <1>2, <1>3, <3>1, <3>2, <3>3
  <2>2. z = 1 /\ comp'.passAfter /\ op' # "synth" /\ ~comp'.synth
    BY <1>5, <1>10, <1>14
  <2> QED
    BY <2>1, <2>2
<1>11. CASE op' = "synth" /\ b <= phase /\ phase - b >= Wide /\ S + c - phase >= Wide
  BY <1>1, <1>2, <1>3, <1>11, Constants
<1>12. CASE op' = "after" /\ phase < b /\ comp'.out = b - phase /\ comp'.passAfter
  <2>1. op # "none" => Drawn = 0
    BY <1>1, <1>2, <1>3, <1>7, <1>12, Constants
  <2>2. z = 0 /\ comp'.passAfter /\ op' # "synth" /\ ~comp'.synth
    BY <1>5, <1>12, <1>14
  <2>3. phase < b
    BY <1>12
  <2> QED
    BY <2>1, <2>2, <2>3
<1> QED
  BY <1>5, <1>9, <1>10, <1>11, <1>12
\* A slow present keeps what the blend modes settled on, or moves it on once.
LEMMA BlendSettledStep ==
    ASSUME SteadyInv, BlendSettled, Present
    PROVE  BlendSettled'
<1> SUFFICES ASSUME Slow PROVE BlendSettled'
  BY TargetMoves DEF BlendSettled, Slow, Tight, SteadyInv
<1> DEFINE what == IF comp'.synth THEN Blended ELSE ToothOf(comp'.out)
           h == settled.blend
<1>1. /\ Tight /\ Slow' /\ phase' = phase /\ phase \in Nat /\ phase < S
      /\ regime.present \in {S, 2 * S} /\ S > 0
  BY SlowTurns, Constants
<1>2. regime' = regime /\ Pass' = Pass /\ Wide' = Wide
  <2>1. regime' = regime
    BY TargetMoves DEF SteadyInv
  <2> QED
    BY <2>1 DEF Pass, Wide, Settings, Pass
<1>3. op' # "none"
  BY SteadyStep
<1>4. comp'.target = 0 /\ comp'.synth \in BOOLEAN
  BY SlowOutcome
<1>5. settled'.blend = Shows(h, what)
  BY DEF Present
<1>6. /\ op = "none" => DOMAIN h.at = {} /\ h.flips = 0
      /\ op # "none" => DOMAIN h.at = {phase}
      /\ h.flips \in {0, 1}
  BY DEF BlendSettled
<1>7. regime.present = S =>
         /\ what \in {0, 1, Blended} /\ (what = Blended <=> comp'.synth)
         /\ comp'.synth => Wide <= phase /\ phase <= S - Pass
         /\ what = 0 => 2 * phase < S
         /\ what = 1 => 2 * phase > S
         /\ op # "none" /\ what # h.at[phase] => comp'.synth /\ ~comp.synth
         /\ op # "none" /\ ~comp.synth => h.flips = 0
         /\ op # "none" => (h.at[phase] = Blended <=> comp.synth)
  <2> HAVE regime.present = S
  <2>1. /\ what \in {0, 1, Blended} /\ (what = Blended <=> comp'.synth)
        /\ comp'.synth => Wide <= phase /\ phase <= S - Pass
        /\ what = 0 => 2 * phase < S
        /\ what = 1 => 2 * phase > S
        /\ op # "none" /\ what # Drawn => comp'.synth /\ ~comp.synth
    BY OnRateStep
  <2>2. op # "none" => (~comp.synth => h.flips = 0) /\ (Drawn = Blended <=> comp.synth)
    BY DEF BlendSettled
  <2> QED
    BY <2>1, <2>2 DEF Drawn
<1>8. regime.present = 2 * S =>
         /\ ~comp'.synth /\ op' # "synth" /\ what \in {0, 1} /\ what # Blended
         /\ what = 0 /\ comp'.passAfter => phase < tooth'[0]
         /\ what = 1 => comp'.passAfter /\ 2 * phase > S + (Wide - Pass)
         /\ op # "none" /\ h.at[phase] = 1 => what = 1
         /\ op # "none" => h.at[phase] \in {0, 1}
         /\ op # "none" /\ h.flips = 1 => h.at[phase] = 1
  <2> HAVE regime.present = 2 * S
  <2>1. /\ ~comp'.synth /\ op' # "synth" /\ ToothOf(comp'.out) \in {0, 1}
        /\ ToothOf(comp'.out) = 0 /\ comp'.passAfter => phase < tooth'[0]
        /\ ToothOf(comp'.out) = 1 => comp'.passAfter /\ 2 * phase > S + (Wide - Pass)
        /\ op # "none" /\ Drawn = 1 => ToothOf(comp'.out) = 1
        /\ op # "none" => Drawn \in {0, 1}
    BY OnHalfStep
  <2>2. what = ToothOf(comp'.out) /\ Blended \notin {0, 1}
    BY <2>1 DEF Blended
  <2>3. op # "none" /\ settled.blend.flips = 1 => Drawn = 1
    BY DEF BlendSettled
  <2> QED
    BY <2>1, <2>2, <2>3 DEF Drawn
<1> HIDE DEF what, h
<1>9. /\ DOMAIN Shows(h, what).at = {phase} /\ Shows(h, what).at[phase] = what
      /\ DOMAIN h.at = {} \/ h.at[phase] = what => Shows(h, what).flips = h.flips
      /\ DOMAIN h.at = {phase} /\ h.at[phase] # what => Shows(h, what).flips = h.flips + 1
  BY <1>1, <1>6, ShowsAgain
<1>10. settled'.blend = Shows(h, what) /\ Drawn' = what
  BY <1>1, <1>5, <1>9 DEF Drawn
<1>17. regime.present = S => regime.present # 2 * S
  BY Constants
<1>11. /\ Shows(h, what).flips \in {0, 1}
       /\ regime.present = S /\ ~comp'.synth => Shows(h, what).flips = 0
       /\ regime.present = 2 * S /\ Shows(h, what).flips = 1 => what = 1
  <2> DEFINE f == Shows(h, what).flips
             rate == regime.present = S
             half == regime.present = 2 * S
             made == comp'.synth
  <2> HIDE DEF rate, half, made
  <2>0. rate \/ half
    BY <1>1 DEF rate, half
  <2>1. CASE op = "none"
    <3>1. f = 0
      BY <1>6, <1>9, <2>1
    <3> QED
      BY <3>1 DEF f
  <2>2. CASE op # "none" /\ rate
    <3>1. CASE what = h.at[phase]
      <4>1. f = h.flips
        BY <1>9, <3>1
      <4>2. ~made => h.flips = 0
        BY <1>7, <2>2, <3>1 DEF made, rate
      <4>3. f \in {0, 1} /\ (~made => f = 0)
        BY <1>6, <4>1, <4>2
      <4> QED
        BY <1>17, <2>2, <4>3 DEF rate, made, half
    <3>2. CASE what # h.at[phase]
      <4>1. made /\ h.flips = 0
        BY <1>7, <2>2, <3>2 DEF made, rate
      <4>2. f = 0 + 1
        BY <1>6, <1>9, <2>2, <3>2, <4>1
      <4>3. f \in {0, 1}
        BY <4>2
      <4> QED
        BY <1>17, <2>2, <4>1, <4>3 DEF made, rate, half
    <3> QED
      BY <3>1, <3>2
  <2>3. CASE op # "none" /\ half
    <3>1. CASE what = h.at[phase]
      <4>1. f = h.flips
        BY <1>9, <3>1
      <4>2. f \in {0, 1} /\ (f = 1 => what = 1)
        BY <1>6, <1>8, <2>3, <3>1, <4>1 DEF half
      <4> QED
        BY <1>17, <2>3, <4>2 DEF half
    <3>2. CASE what # h.at[phase]
      <4>1. what = 1 /\ h.flips = 0
        BY <1>6, <1>8, <2>3, <3>2 DEF half
      <4>2. f = 0 + 1
        BY <1>6, <1>9, <2>3, <3>2, <4>1
      <4>3. f \in {0, 1}
        BY <4>2
      <4> QED
        BY <1>17, <2>3, <4>1, <4>3 DEF half
    <3> QED
      BY <3>1, <3>2
  <2> QED
    BY <2>0, <2>1, <2>2, <2>3
<1>12. /\ settled'.blend.flips \in {0, 1}
       /\ DOMAIN settled'.blend.at = {phase}
       /\ regime.present = S /\ ~comp'.synth => settled'.blend.flips = 0
       /\ regime.present = 2 * S /\ settled'.blend.flips = 1 => what = 1
  BY <1>9, <1>10, <1>11
<1>13. what \in {0, 1, Blended} /\ (what = Blended <=> comp'.synth)
  BY <1>1, <1>7, <1>8
<1>14. regime'.present = S =>
          /\ comp'.synth => Wide' <= phase' /\ phase' <= S - Pass'
          /\ ~comp'.synth => settled'.blend.flips = 0
          /\ what = 0 => 2 * phase' < S
          /\ what = 1 => 2 * phase' > S
  BY <1>1, <1>2, <1>7, <1>12
<1>15. regime'.present = 2 * S =>
          /\ ~comp'.synth /\ op' # "synth"
          /\ what = 0 /\ comp'.passAfter => phase' < tooth'[0]
          /\ what = 1 => comp'.passAfter /\ 2 * phase' > S + (Wide' - Pass')
          /\ settled'.blend.flips = 1 => what = 1
  BY <1>1, <1>2, <1>8, <1>12
<1>16. phase' = phase
  BY <1>1
<1> QED
  BY <1>3, <1>4, <1>10, <1>12, <1>13, <1>14, <1>15, <1>16 DEF BlendSettled

\* What the blend modes come to on a slow clock is kept.
THEOREM BlendKeeps == Spec => []BlendSettled
<1>1. Init => BlendSettled
  <2> SUFFICES ASSUME Init PROVE BlendSettled
    OBVIOUS
  <2>1. /\ settled = [mode \in {"nearest", "blend"} |-> [at |-> [p \in {} |-> None], flips |-> 0]]
        /\ op = "none"
    BY DEF Init
  <2>2. settled.blend = [at |-> [p \in {} |-> None], flips |-> 0]
    BY <2>1
  <2>3. DOMAIN settled.blend.at = {} /\ settled.blend.flips = 0
    BY <2>2
  <2> QED
    BY <2>1, <2>3 DEF BlendSettled
<1>2. SteadyInv /\ BlendSettled /\ [Present]_vars => BlendSettled'
  <2> SUFFICES ASSUME SteadyInv, BlendSettled, [Present]_vars PROVE BlendSettled'
    OBVIOUS
  <2>1. CASE Present
    BY <2>1, BlendSettledStep
  <2>2. CASE UNCHANGED vars
    BY <2>2 DEF vars, BlendSettled, Slow, Tight, Drawn, Pass, Wide, Settings
  <2> QED
    BY <2>1, <2>2
<1> QED
  BY <1>1, <1>2, SteadyInvariant, PTL DEF Spec

\* Jitter within the bands moves the blend modes once at most, from a real frame to a blend or from
\* one side to the other, and never back.
THEOREM BlendStays == Spec => []BlendSettles
<1>1. BlendSettled => BlendSettles
  BY DEF BlendSettled, BlendSettles
<1> QED
  BY <1>1, BlendKeeps, PTL
-----------------------------------------------------------------------------
(* A source at twice the present rate, and at three halves of it.          *)

\* The target goes from the grid to the middle and back; on the grid a real frame passes, in the
\* middle none is near.
Turns == 2 * regime.present = 3 * S /\ regime.phases \subseteq {0, S \div 2}

EvenTurns ==
    Turns =>
       /\ ~regime.holes /\ phase \in {0, S \div 2}
       /\ op # "none" => comp.target = 0 /\ (op = "synth" <=> phase = S \div 2)

\* A present takes the target from the grid to the middle or back, and passes or blends by it.
LEMMA EvenStep ==
    ASSUME SteadyInv, EvenTurns, Present
    PROVE  EvenTurns'
<1> DEFINE x == Bef'
           y == Aft'
           b == tooth'[0]
           half == S \div 2
           P == regime.present
           p == phase'
<1>1. TeethType /\ Decided /\ regime \in Regimes /\ regime' = regime /\ Turns' = Turns
  <2>1. TeethType /\ Decided /\ regime' = regime
    BY TargetMoves DEF SteadyInv
  <2> QED
    BY <2>1 DEF Turns, TeethType
<1> SUFFICES ASSUME Turns PROVE EvenTurns'
  BY <1>1 DEF EvenTurns
<1>2. /\ 2 * P = 3 * S /\ P \in Nat /\ ~regime.holes /\ phase \in {0, half}
      /\ op # "none" => comp.target = 0
  BY <1>1, RegimeFacts DEF EvenTurns, Turns
<1>3. Whole /\ Composed
  BY <1>2 DEF SteadyInv
<1>4. half \in Nat /\ 2 * half = S /\ P = S + half
  BY <1>2, Constants
<1>5. p \in {0, half} /\ p \in Nat /\ p < S
  <2>1. PICK n \in {0, 1, 2} : phase' = phase + P - n * S
    BY <1>1, TargetMoves
  <2>2. phase' \in 0 .. (S - 1)
    BY <1>1, TargetMoves DEF TeethType
  <2>3. CASE phase = 0
    BY <1>4, <2>1, <2>2, <2>3, Constants
  <2>4. CASE phase = half
    BY <1>4, <2>1, <2>2, <2>4, Constants
  <2> QED
    BY <1>2, <2>3, <2>4
<1>6. /\ tooth'[-1] \in Nat /\ 16 * tooth'[-1] <= 3 * S
      /\ tooth'[0] \in Nat /\ 16 * tooth'[0] <= 3 * S
      /\ tooth'[1] \in Nat /\ 16 * tooth'[1] <= 3 * S
  <2>1. Whole' /\ \A d \in regime.offsets : d \in Nat /\ 16 * d <= 3 * S
    BY <1>1, <1>3, TeethMove, RegimeFacts
  <2>2. \A k \in {-1, 0, 1} : tooth'[k] \in regime.offsets
    BY <1>1, <2>1 DEF Whole
  <2> QED
    BY <2>1, <2>2
<1>7. /\ b <= p => x = b - p /\ y = S + tooth'[1] - p
      /\ ~(b <= p) => x = tooth'[-1] - S - p /\ y = b - p
  BY DEF Bef, Aft, BefAt, AftAt
<1>8. /\ Pass \in Nat /\ Wide \in Nat /\ Wide > Pass /\ 4 * (Wide - Pass) <= Pass
      /\ 4 * Pass <= S /\ 4 * Pass >= S - 3
  <2>1. \/ 4 * Pass <= S /\ 4 * Pass >= S - 3
        \/ P >= 2 * S - 2
    BY <1>1, Gates
  <2> QED
    BY <1>1, <1>2, <2>1, Gates, Constants
<1>9. Gate \in Nat /\ Gate >= Pass /\ 16 * Gate <= 5 * S
  <2>1. Gate \in {Pass, Wide}
    BY DEF Gate
  <2> QED
    BY <1>8, <2>1, Constants
<1>10. Outcome /\ ~OnComb(CompNow, Settings)
  <2>1. Outcome
    BY <1>1, <1>3, WholeOutcome
  <2>2. P >= S
    BY <1>2, Constants
  <2> QED
    BY <1>2, <2>1, <2>2, NoComb
<1>11. /\ PassesBefore(x, y, Gate, comp, Settings) => ~Apart(x, y, Gate)
       /\ PassesAfter(x, y, Gate, comp, Settings) => ~Apart(x, y, Gate)
  <2>1. x \in Int /\ y \in Int
    BY <1>1, <1>3, WholePresent
  <2> HIDE DEF x, y
  <2> QED
    BY <1>9, <2>1 DEF PassesBefore, PassesAfter, Apart
<1>12. op' \in {"before", "after", "synth"} /\ (op' = "synth" <=> Apart(x, y, Gate))
  <2> HIDE DEF x, y
  <2>1. \/ PassesBefore(x, y, Gate, comp, Settings) /\ op' = "before"
        \/ PassesAfter(x, y, Gate, comp, Settings) /\ op' = "after"
        \/ Apart(x, y, Gate) /\ op' = "synth"
    BY <1>10 DEF Outcome, x, y
  <2> QED
    BY <1>11, <2>1
<1> HIDE DEF x, y, b, half, P, p
<1>13. CASE p = 0
  <2>1. ~Apart(x, y, Gate)
    <3>1. CASE b <= p
      <4>1. b = 0 /\ x = 0 /\ y = S + tooth'[1]
        BY <1>6, <1>7, <1>13, <3>1, Constants DEF b
      <4>2. Gate > 0
        BY <1>8, <1>9, Constants
      <4> QED
        BY <1>9, <4>1, <4>2 DEF Apart
    <3>2. CASE ~(b <= p)
      BY <1>6, <1>7, <1>8, <1>9, <1>13, <3>2, Constants DEF Apart, b
    <3> QED
      BY <3>1, <3>2
  <2>2. p # half
    BY <1>4, <1>13, Constants
  <2> QED
    BY <1>1, <1>2, <1>5, <1>12, <2>1, <2>2, ComposedStep, <1>3 DEF EvenTurns, p, half
<1>14. CASE p = half
  <2>1. b <= p
    BY <1>4, <1>6, <1>14, Constants DEF b
  <2>2. Apart(x, y, Gate)
    BY <1>4, <1>6, <1>7, <1>9, <1>14, <2>1, Constants DEF Apart, b
  <2> QED
    BY <1>1, <1>2, <1>5, <1>12, <1>14, <2>2, ComposedStep, <1>3 DEF EvenTurns, p, half
<1> QED
  BY <1>5, <1>13, <1>14

\* A source at twice the present rate is passed without a blend; at three halves of it, locked, a
\* real frame and a blend take turns, for any jitter the threshold bears.
THEOREM StepsAreEven == Spec => []EvenOutput
<1>1. Init => EvenTurns
  <2> SUFFICES ASSUME Init, Turns PROVE ~regime.holes /\ phase \in {0, S \div 2} /\ op = "none"
    BY DEF EvenTurns
  <2>1. phase \in {0, S \div 2} /\ op = "none" /\ regime \in Regimes
    BY DEF Init, Turns
  <2>2. ~regime.holes
    BY <2>1, RegimeFacts, Constants DEF Turns
  <2> QED
    BY <2>1, <2>2
<1>2. SteadyInv /\ EvenTurns /\ [Present]_vars => EvenTurns'
  <2> SUFFICES ASSUME SteadyInv, EvenTurns, [Present]_vars PROVE EvenTurns'
    OBVIOUS
  <2>1. CASE Present
    BY <2>1, EvenStep
  <2>2. CASE UNCHANGED vars
    BY <2>2 DEF vars, EvenTurns, Turns
  <2> QED
    BY <2>1, <2>2
<1>3. BlendSettled /\ EvenTurns => EvenOutput
  <2> SUFFICES ASSUME BlendSettled, EvenTurns PROVE EvenOutput
    OBVIOUS
  <2>1. Tight /\ regime.present = 2 * S => op # "synth"
    <3>1. HAVE Tight /\ regime.present = 2 * S
    <3>2. Slow
      BY <3>1 DEF Slow
    <3>3. CASE op = "none"
      BY <3>3
    <3>4. CASE op # "none"
      BY <3>1, <3>2, <3>4 DEF BlendSettled
    <3> QED
      BY <3>3, <3>4
  <2> QED
    BY <2>1 DEF EvenTurns, Turns, EvenOutput
<1> QED
  BY <1>1, <1>2, <1>3, SteadyInvariant, BlendKeeps, PTL DEF Spec
-----------------------------------------------------------------------------
(* A fast clock.                                                           *)

\* The threshold and the guard on a fast clock.
LEMMA FastGates ==
    ASSUME regime \in Regimes, Fast
    PROVE  /\ Pass \in Nat /\ Wide \in Nat /\ Wide > Pass /\ Wide - Pass <= Band
           /\ 4 * Pass <= S /\ 4 * Pass >= S - 3 /\ 2 * (Wide + Pass) > S
           /\ Settings.srcPeriod = S /\ ~regime.holes /\ Tight
           /\ regime.present \in Nat /\ regime.present > 0
           /\ S = 2 * regime.present \/ S = 4 * regime.present
<1> USE Constants
<1>1. /\ Tight /\ ~regime.holes /\ S \in {2 * regime.present, 4 * regime.present}
      /\ ToothGuardPeriod(S, regime.sink, TRUE) > 0
  BY DEF Fast, Tight
<1>2. regime.present \in Nat /\ regime.present > 0
  BY RegimeFacts
<1>3. /\ Pass \in Nat /\ Wide \in Nat /\ Wide > Pass /\ Wide - Pass <= Band
      /\ \/ 4 * Pass <= S /\ 4 * Pass >= S - 3
         \/ regime.present >= 2 * S - 2
      /\ Settings.srcPeriod \in {0, S} /\ Settings.srcPeriod = ToothGuardPeriod(S, regime.sink, TRUE)
  BY Gates
<1>4. 4 * Pass <= S /\ 4 * Pass >= S - 3
  BY <1>1, <1>2, <1>3
<1>5. Settings.srcPeriod = S
  <2>1. Settings.srcPeriod \in {0, S} /\ Settings.srcPeriod > 0
    BY <1>1, <1>3
  <2> HIDE DEF Settings
  <2>2. Settings.srcPeriod # 0
    BY <2>1
  <2> QED
    BY <2>1, <2>2
<1>6. Wide - Pass = IF Band < Pass \div 4 THEN Band ELSE Pass \div 4
  <2>1. Wide = Pass + IF Band < Pass \div 4 THEN Band ELSE Pass \div 4
    BY DEF Wide, WideGate, Pass, Settings
  <2> HIDE DEF Pass, Wide
  <2>2. Pass \div 4 \in Nat
    BY <1>3
  <2> QED
    BY <1>3, <2>1, <2>2
<1>7. Wide - Pass >= 2
  <2>1. S >= 32
    BY ParkedAssumption
  <2> HIDE DEF Pass, Wide
  <2>2. Pass >= 8
    BY <1>3, <1>4, <2>1
  <2>3. Pass \div 4 \in Nat /\ Pass \div 4 >= 2
    BY <1>3, <2>2
  <2> QED
    BY <1>6, <2>3
<1> HIDE DEF Pass, Wide
<1>8. 2 * (Wide + Pass) > S
  BY <1>3, <1>4, <1>7
<1> QED
  BY <1>1, <1>2, <1>3, <1>4, <1>5, <1>8

\* Once a frame was passed, the presents since it are on the comb, each past the reach of the frames
\* either side; two of them in a row are all there is room for.
FastSettled ==
    Fast /\ op # "none" /\ ~comp.synth =>
       /\ \/ comp.target = 0
          \/ comp.target = -regime.present /\ phase >= Wide
          \/ comp.target = -2 * regime.present /\ phase >= Wide + regime.present
       /\ comp.target # 0 => phase <= S - Pass

\* A fast present passes or holds on the comb after one that passed.
LEMMA FastStep ==
    ASSUME SteadyInv, FastSettled, Present
    PROVE  FastSettled' /\ (Fast /\ op # "none" /\ ~comp.synth => op' # "synth")
<1> DEFINE x == Bef'
           y == Aft'
           b == tooth'[0]
           c == tooth'[1]
           P == regime.present
           p == phase'
           q == phase
           a == comp.target
<1>1. TeethType /\ Decided /\ regime \in Regimes /\ regime' = regime
  BY TargetMoves DEF SteadyInv, TeethType
<1>2. Fast' = Fast /\ Pass' = Pass /\ Wide' = Wide
  BY <1>1 DEF Fast, Tight, Pass, Wide, WideGate, Settings
<1> SUFFICES ASSUME Fast
             PROVE  FastSettled' /\ (op # "none" /\ ~comp.synth => op' # "synth")
  BY <1>2 DEF FastSettled
<1>3. /\ Pass \in Nat /\ Wide \in Nat /\ Wide > Pass /\ Wide - Pass <= Band
      /\ 4 * Pass <= S /\ 4 * Pass >= S - 3 /\ 2 * (Wide + Pass) > S
      /\ Settings.srcPeriod = S /\ ~regime.holes /\ Tight
      /\ P \in Nat /\ P > 0 /\ (S = 2 * P \/ S = 4 * P)
  BY <1>1, FastGates
<1>4. Whole /\ Composed
  BY <1>3 DEF SteadyInv
<1>5. /\ q \in Nat /\ p \in Nat /\ p < S
      /\ b \in Nat /\ b <= Wide - Pass /\ c \in Nat /\ c <= Wide - Pass
      /\ \E n \in {0, 1, 2} : p = q + P - n * S
  BY <1>3, TightPresent
<1>6. q < S
  BY <1>1, Constants DEF TeethType
<1>7. p = q + P \/ p = q + P - S
  BY <1>3, <1>5, <1>6, Constants
<1>8. /\ b <= p => x = b - p /\ y = S + c - p
      /\ ~(b <= p) => y = b - p
  BY DEF Bef, Aft, BefAt, AftAt
<1>9. Outcome
  BY <1>1, <1>4, WholeOutcome
<1>10. comp.synth \in BOOLEAN /\ a \in Int
  BY <1>1 DEF Decided, CompositeStates
<1> HIDE DEF x, y, b, c, P, p, q, a
<1>11. Gate = Wide /\ Apart(x, y, Gate) => Wide <= p /\ p <= S - Pass
  <2>1. SUFFICES ASSUME -x >= Wide, y >= Wide PROVE Wide <= p /\ p <= S - Pass
    BY DEF Apart
  <2>2. b <= p
    BY <1>3, <1>5, <1>8, <2>1, Constants
  <2>3. x = b - p /\ y = S + c - p
    BY <1>8, <2>2
  <2> QED
    BY <1>3, <1>5, <2>1, <2>3, Constants
\* The last target.
<1>12. op # "none" /\ ~comp.synth =>
          /\ \/ a = 0
             \/ a = -P /\ q >= Wide
             \/ a = -2 * P /\ q >= Wide + P
          /\ a # 0 => q <= S - Pass
  BY DEF FastSettled, a, q, P
<1>13. op # "none" => CompNow.target = a - P /\ -8 * a < 7 * S
  BY <1>1, <1>4, NowComposed DEF Composed, a, P
<1>14. op = "none" => ~comp.synth /\ ~OnComb(CompNow, Settings)
  <2>1. HAVE op = "none"
  <2>2. ~comp.synth /\ CompNow.target = Never
    BY <1>1, <2>1, NowFacts DEF Decided, FirstComposite
  <2> QED
    BY <2>2 DEF OnComb
<1>15. op # "none" /\ ~comp.synth /\ Apart(x, y, Gate) =>
          /\ OnComb(CompNow, Settings)
          /\ \/ a - P = -P /\ p >= Wide
             \/ a - P = -2 * P /\ p >= Wide + P
          /\ p <= S - Pass
  <2>1. SUFFICES ASSUME op # "none", ~comp.synth, Apart(x, y, Gate)
                 PROVE  /\ OnComb(CompNow, Settings)
                        /\ \/ a - P = -P /\ p >= Wide
                           \/ a - P = -2 * P /\ p >= Wide + P
                        /\ p <= S - Pass
    OBVIOUS
  <2>2. Wide <= p /\ p <= S - Pass
    <3>1. Gate = Wide
      BY <2>1 DEF Gate
    <3> QED
      BY <1>11, <2>1, <3>1
  <2>3. \/ a = 0
        \/ a = -P /\ S = 4 * P /\ p >= Wide + P
    <3>1. CASE a = 0
      BY <3>1
    <3>2. CASE a = -P /\ q >= Wide /\ q <= S - Pass
      <4>1. CASE S = 2 * P
        BY <1>3, <1>5, <1>7, <2>2, <3>2, <4>1, Constants
      <4>2. CASE S = 4 * P
        BY <1>3, <1>5, <1>7, <2>2, <3>2, <4>2, Constants
      <4> QED
        BY <1>3, <4>1, <4>2
    <3>3. CASE a = -2 * P /\ q >= Wide + P /\ q <= S - Pass
      <4>1. CASE S = 2 * P
        BY <1>3, <1>13, <2>1, <3>3, <4>1, Constants
      <4>2. CASE S = 4 * P
        BY <1>3, <1>5, <1>7, <2>2, <3>3, <4>2, Constants
      <4> QED
        BY <1>3, <4>1, <4>2
    <3>4. a = 0 \/ a # 0
      OBVIOUS
    <3> QED
      BY <1>3, <1>10, <1>12, <2>1, <3>1, <3>2, <3>3, Constants
  <2>4. OnComb(CompNow, Settings)
    <3>1. CompNow.target = a - P
      BY <1>13, <2>1
    <3>2. 8 * (P - a) <= 6 * S
      BY <1>3, <1>10, <2>3, Constants
    <3>3. (S * 7) \div 8 \in Int /\ 8 * ((S * 7) \div 8) >= S * 7 - 7
      BY Constants
    <3>4. -(a - P) < (S * 7) \div 8
      BY <1>3, <1>10, <3>2, <3>3, Constants
    <3>5. a - P # Never /\ S > 0
      BY <1>3, <1>10, <3>2, Constants
    <3> QED
      BY <1>3, <3>1, <3>4, <3>5 DEF OnComb
  <2>5. \/ a - P = -P /\ p >= Wide
        \/ a - P = -2 * P /\ p >= Wide + P
    BY <1>3, <2>2, <2>3
  <2> QED
    BY <2>2, <2>4, <2>5
<1>16. \/ op' \in {"before", "after"} /\ comp'.target = 0
       \/ Apart(x, y, Gate) /\ ~OnComb(CompNow, Settings) /\ op' = "synth" /\ comp'.synth = TRUE
       \/ Apart(x, y, Gate) /\ OnComb(CompNow, Settings) /\ op' = "comb" /\ comp' = CompNow
  BY <1>9 DEF Outcome, x, y
<1>17. CompNow.synth = comp.synth
  BY <1>1, NowFacts
<1>18. op # "none" /\ ~comp.synth => op' # "synth"
  BY <1>15, <1>16
<1>19. ~comp'.synth => \/ comp'.target = 0
                       \/ /\ \/ comp'.target = -P /\ p >= Wide
                             \/ comp'.target = -2 * P /\ p >= Wide + P
                          /\ p <= S - Pass
  <2>1. SUFFICES ASSUME ~comp'.synth, comp'.target # 0
                 PROVE  /\ \/ comp'.target = -P /\ p >= Wide
                           \/ comp'.target = -2 * P /\ p >= Wide + P
                        /\ p <= S - Pass
    OBVIOUS
  <2>2. Apart(x, y, Gate) /\ OnComb(CompNow, Settings) /\ comp' = CompNow
    BY <1>16, <2>1
  <2>3. op # "none" /\ ~comp.synth
    BY <1>14, <1>17, <2>1, <2>2
  <2>4. comp'.target = a - P
    BY <1>13, <2>2, <2>3
  <2> QED
    BY <1>15, <2>2, <2>3, <2>4
<1>20. FastSettled'
  BY <1>1, <1>2, <1>19 DEF FastSettled, p, P
<1> QED
  BY <1>18, <1>20

\* Once a real frame was passed to a fast sink, no present blends until a frame is missing.
THEOREM NothingMade == Spec => NoParityBlend
<1>1. Init => FastSettled
  BY DEF Init, FastSettled
<1>2. SteadyInv /\ FastSettled /\ [Present]_vars =>
         FastSettled' /\ [Fast /\ comp.target # Never /\ ~comp.synth => op' # "synth"]_vars
  <2> SUFFICES ASSUME SteadyInv, FastSettled, [Present]_vars
               PROVE  FastSettled' /\ [Fast /\ comp.target # Never /\ ~comp.synth
                                           => op' # "synth"]_vars
    OBVIOUS
  <2>1. CASE Present
    <3>1. op = "none" => comp.target = Never
      BY DEF SteadyInv, Decided, FirstComposite
    <3> QED
      BY <2>1, <3>1, FastStep
  <2>2. CASE UNCHANGED vars
    BY <2>2 DEF vars, FastSettled, Fast, Tight, Pass, Wide, WideGate, Settings
  <2> QED
    BY <2>1, <2>2
<1> QED
  BY <1>1, <1>2, SteadyInvariant, PTL DEF Spec, NoParityBlend
===============================================================================
